---------------------------- MODULE Spec2Model ----------------------------
(***************************************************************************)
(* Medallion ETL + dual-write synchronisation engine                       *)
(* (app/services/seed_service.py and its collaborators).                   *)
(*                                                                         *)
(* The warehouse is a set of tables (sets of rows, a row being a function  *)
(* from column names to values), a Session is a private working copy that  *)
(* becomes visible at commit, the search engine is a map from collection   *)
(* names to documents.  Timestamps are seconds since the epoch read from   *)
(* a clock, dates are days since 1970-01-01, text is a tuple of            *)
(* characters; None in a timestamp column is NoTime, None in a text        *)
(* column is the tuple << "None" >>.                                       *)
(***************************************************************************)
EXTENDS Integers, Sequences, FiniteSets, TLC

VARIABLES
    pc,             \* position of run_seed_process
    result,         \* the dict run_seed_process returned ("none" while running)
    log,            \* the methods run_seed_process started and left, in order
    storage,        \* the files of the bucket folder files/data/bronze
    bronze,         \* staging schema: table name -> whether it exists, its rows
    silver,         \* dimension tables: table name -> set of rows
    dim_date,       \* silver.dim_date, as the calendars appended to it (DimDateRows)
    metric_entry,   \* silver.metric_entry
    seq,            \* the id sequences of the silver tables
    collections,    \* search engine: collection name -> whether it exists, its documents
    env,            \* the host: reachability of the search engine, offset of local time
    clock,          \* the last value datetime.now(UTC) returned
    tx,             \* the Session of the write in progress
    sync,           \* the loop of _sync_to_typesense in progress
    call,           \* the invocation of a SeedService method under study
    api             \* the HTTP request being served and its response

vars == <<pc, result, log, storage, bronze, silver, dim_date, metric_entry, seq,
          collections, env, clock, tx, sync, call, api>>

-----------------------------------------------------------------------------
(* Bounds of the model *)

\* longest batch (rows of one staging table) considered
MaxBatchLen == 2

-----------------------------------------------------------------------------
(* Values *)

\* None in a timestamp column: row.get("source_timestamp") is falsy
NoTime == 0

\* None in a text column
None == << "None" >>

\* The ten dimension tables, in the order of _process_dimensions.mappings
DimTables ==
    << "dim_cost_center", "dim_environment", "dim_hardware_profile",
       "dim_provider", "dim_region", "dim_security_tier", "dim_service_type",
       "dim_status", "dim_team", "dim_asset" >>

Range(s) == { s[i] : i \in DOMAIN s }

\* The staging table each dimension is loaded from (mappings, 2nd column)
BronzeTable(model) ==
    CASE model = "dim_asset"            -> "assets"
      [] model = "dim_cost_center"      -> "cost_centers"
      [] model = "dim_environment"      -> "environments"
      [] model = "dim_hardware_profile" -> "hardware_profiles"
      [] model = "dim_provider"         -> "providers"
      [] model = "dim_region"           -> "regions"
      [] model = "dim_security_tier"    -> "security_tiers"
      [] model = "dim_service_type"     -> "service_types"
      [] model = "dim_status"           -> "statuses"
      [] model = "dim_team"             -> "teams"

\* The collection each dimension is indexed into (mappings, 5th column),
\* named after its domain model
CollectionName(model) ==
    CASE model = "dim_asset"            -> "AssetDomain"
      [] model = "dim_cost_center"      -> "CostCenterDomain"
      [] model = "dim_environment"      -> "EnvironmentDomain"
      [] model = "dim_hardware_profile" -> "HardwareProfileDomain"
      [] model = "dim_provider"         -> "ProviderDomain"
      [] model = "dim_region"           -> "RegionDomain"
      [] model = "dim_security_tier"    -> "SecurityTierDomain"
      [] model = "dim_service_type"     -> "ServiceTypeDomain"
      [] model = "dim_status"           -> "StatusDomain"
      [] model = "dim_team"             -> "TeamDomain"

CollectionNames == { CollectionName(m) : m \in Range(DimTables) }

\* No staging table exists, of those the pipeline reads and one it does not
NoBronze ==
    LET BronzeTables ==
            { BronzeTable(m) : m \in Range(DimTables) } \cup { "metric_entries", "notes" }
    IN  [ t \in BronzeTables |-> [ exists |-> FALSE, rows |-> << >> ] ]

\* No collection exists
NoCollections == [ c \in CollectionNames |-> [ exists |-> FALSE, docs |-> {} ] ]

\* run_seed_process is not running
Idle == [ step |-> "idle", dim |-> 0, at |-> "none" ]

\* No request is being served
NoRequest == [ op |-> "none", status |-> 0 ]

\* _sync_to_typesense is not running
SyncIdle == [ state |-> "idle", model |-> "none", todo |-> << >> ]

-----------------------------------------------------------------------------
(* HTTP layer: the authenticate dependency of the routes *)

\* What a request may carry: no Authorization header, or Basic credentials
Credentials ==
    { [ given |-> FALSE, username |-> "", password |-> "" ] }
    \cup [ given : { TRUE }, username : { "admin", "guest" },
           password : { "password123", "letmein" } ]

\* HTTPBasic() answers 401 when the header is missing; authenticate raises
\* HTTPException(401) unless both the name and the password are the admin's
authenticate(credentials) ==
    LET \* os.getenv("ADMIN_USERNAME", "admin"), os.getenv("ADMIN_PASSWORD", "password123")
        ADMIN_USERNAME == "admin"
        ADMIN_PASSWORD == "password123"
    IN
    /\ credentials.given
    /\ credentials.username = ADMIN_USERNAME
    /\ credentials.password = ADMIN_PASSWORD

-----------------------------------------------------------------------------
(* Python str methods, on text given as its characters *)

LowerCase ==
    << "a", "b", "c", "d", "e", "f", "g", "h", "i", "j", "k", "l", "m", "n", "o", "p", "q", "r", "s", "t", "u", "v", "w", "x", "y", "z" >>

UpperCase ==
    << "A", "B", "C", "D", "E", "F", "G", "H", "I", "J", "K", "L", "M", "N", "O", "P", "Q", "R", "S", "T", "U", "V", "W", "X", "Y", "Z" >>

DigitChars == << "0", "1", "2", "3", "4", "5", "6", "7", "8", "9" >>

IsLower(ch) == \E i \in 1..26 : LowerCase[i] = ch
IsUpper(ch) == \E i \in 1..26 : UpperCase[i] = ch
IsDigit(ch) == \E i \in 1..10 : DigitChars[i] = ch
IsSpace(ch) == ch \in { " ", "\t", "\n" }

UpperChar(ch) ==
    IF IsLower(ch) THEN UpperCase[CHOOSE i \in 1..26 : LowerCase[i] = ch] ELSE ch

LowerChar(ch) ==
    IF IsUpper(ch) THEN LowerCase[CHOOSE i \in 1..26 : UpperCase[i] = ch] ELSE ch

\* str.upper(), str.lower()
Upper(str) == [ i \in DOMAIN str |-> UpperChar(str[i]) ]
Lower(str) == [ i \in DOMAIN str |-> LowerChar(str[i]) ]

\* str.title(): a letter that follows a letter is lowered, any other is raised
Title(str) ==
    LET IsLetter(ch) == IsLower(ch) \/ IsUpper(ch)
    IN  [ i \in DOMAIN str |->
            IF i > 1 /\ IsLetter(str[i - 1]) THEN LowerChar(str[i]) ELSE UpperChar(str[i]) ]

\* str.strip(): from the first to the last character that is no white space
Strip(str) ==
    LET kept  == { i \in DOMAIN str : ~ IsSpace(str[i]) }
        first == CHOOSE i \in kept : \A j \in kept : i <= j
        last  == CHOOSE i \in kept : \A j \in kept : i >= j
    IN  IF kept = {} THEN << >> ELSE SubSeq(str, first, last)

\* str(n) of a natural number
RECURSIVE Str(_)
Str(n) ==
    IF n < 10 THEN << DigitChars[n + 1] >>
    ELSE Str(n \div 10) \o << DigitChars[(n % 10) + 1] >>

\* The pipeline-metadata columns every dimension carries
MetadataFields == { "is_active", "source_timestamp", "updated_at" }

\* model_fields of each SQLModel dimension class
ModelFields(model) ==
    {"id"} \cup MetadataFields \cup
    CASE model = "dim_asset"            -> { "resource_name", "serial_number", "description", "created_at" }
      [] model = "dim_cost_center"      -> { "center_code", "department", "budget_limit" }
      [] model = "dim_environment"      -> { "env_name", "tier", "is_ephemeral" }
      [] model = "dim_hardware_profile" -> { "profile_name", "cpu_count", "ram_gb" }
      [] model = "dim_provider"         -> { "provider_name", "provider_type", "support_contact" }
      [] model = "dim_region"           -> { "region_code", "display_name", "continent" }
      [] model = "dim_security_tier"    -> { "tier_name", "encryption_required", "compliance_standard" }
      [] model = "dim_service_type"     -> { "service_name", "category", "is_managed" }
      [] model = "dim_status"           -> { "status_name", "is_billable", "description" }
      [] model = "dim_team"             -> { "team_name", "department", "lead_email" }

\* The business key of each dimension (u_key of the mappings)
UniqueCol(model) ==
    CASE model = "dim_asset"            -> "serial_number"
      [] model = "dim_cost_center"      -> "center_code"
      [] model = "dim_environment"      -> "env_name"
      [] model = "dim_hardware_profile" -> "profile_name"
      [] model = "dim_provider"         -> "provider_name"
      [] model = "dim_region"           -> "region_code"
      [] model = "dim_security_tier"    -> "tier_name"
      [] model = "dim_service_type"     -> "service_name"
      [] model = "dim_status"           -> "status_name"
      [] model = "dim_team"             -> "team_name"

\* Columns holding text (None is None); the others of the model hold
\* numbers, dates or booleans and are never None in the batches considered.
TextCols ==
    { "resource_name", "serial_number", "description", "center_code",
      "department", "env_name", "tier", "profile_name", "provider_name",
      "provider_type", "support_contact", "region_code", "display_name",
      "continent", "tier_name", "compliance_standard", "service_name",
      "category", "status_name", "team_name", "lead_email" }

-----------------------------------------------------------------------------
(* Dimension Upsert Engine: SeedService._upsert_polars_to_silver *)

\* Steps 1 and 2 of the loop body: the projection of the row onto the
\* model's fields, with the metadata injected.
ValidData(row, model, now) ==
    LET fields == ModelFields(model)
        kept   == (DOMAIN row \cap fields) \cup MetadataFields
    IN  [ c \in kept |->
            IF c = "is_active" THEN TRUE
            ELSE IF c = "updated_at" THEN now
            ELSE IF c = "source_timestamp"
                 THEN IF "source_timestamp" \in DOMAIN row /\ row["source_timestamp"] # NoTime
                      THEN row["source_timestamp"] ELSE now
            ELSE row[c] ]

\* Faulty variant: set_ holds only the metadata, so a conflicting row keeps
\* its old descriptive values (ON CONFLICT close to DO NOTHING).
OnConflictSetMetadataOnly(old, vd) ==
    [ c \in DOMAIN old |-> IF c \in DOMAIN vd \cap MetadataFields THEN vd[c] ELSE old[c] ]

\* Faulty variant: set_ leaves is_active out, a conflicting row keeps its flag
OnConflictSetKeepsFlag(old, vd) ==
    [ c \in DOMAIN old |-> IF c \in DOMAIN vd \ { "is_active" } THEN vd[c] ELSE old[c] ]

\* on_conflict_do_update(set_=valid_data): every column of valid_data
\* overwrites the stored one, the others (id) keep their value.
OnConflictSet(old, vd) ==
    [ c \in DOMAIN old |-> IF c \in DOMAIN vd THEN vd[c] ELSE old[c] ]

\* Step 3: one INSERT ... ON CONFLICT (unique_col) DO UPDATE statement
\* against `table`.  nextval of the id sequence is consumed whether or not
\* the row conflicts.  ok = FALSE: the statement raises.
UpsertStatement(table, sq, vd, model) ==
    LET u        == UniqueCol(model)
        \* a value the database takes for SQL NULL in column c
        IsNull(c, v) ==
            IF c \in TextCols THEN v = None
            ELSE IF c = "source_timestamp" THEN v = NoTime
            ELSE FALSE
        \* every column of a dimension but id is declared without Optional: NOT NULL
        NotNullCols == ModelFields(model) \ {"id"}
        nulls    == { c \in NotNullCols : c \notin DOMAIN vd \/ IsNull(c, vd[c]) }
        existing == { t \in table : t[u] = vd[u] }
        inserted == [ c \in ModelFields(model) |-> IF c = "id" THEN sq + 1 ELSE vd[c] ]
    IN  IF nulls # {}
        THEN [ ok |-> FALSE, table |-> table, seq |-> sq + 1 ]
        ELSE IF existing = {}
        THEN [ ok |-> TRUE, table |-> table \cup {inserted}, seq |-> sq + 1 ]
        ELSE [ ok |-> TRUE,
               table |-> (table \ existing) \cup { OnConflictSet(t, vd) : t \in existing },
               seq |-> sq + 1 ]


\* Faulty variant: the rows executed before the exception stay written
\* (a session that commits each statement as it goes).
RollbackKeepsWrites(committed, working) == working

\* Session.__exit__ after an exception: close() rolls the transaction back,
\* the table keeps its committed contents.
Rollback(committed, working) == committed

\* The Session of a with-block that is not open
TxClosed == [ state |-> "closed" ]

\* with Session(self.engine) as session: a transaction on a private copy
TxOpen(kind, model, batch, table, now) ==
    [ state |-> "open", kind |-> kind, model |-> model, todo |-> batch,
      working |-> table, now |-> now ]

\* One iteration of the loop of _upsert_polars_to_silver: session.exec(stmt).
\* A statement that raises leaves the with-block: nothing was committed.
UpsertRow ==
    /\ tx.state = "open" /\ tx.kind = "dim" /\ tx.todo # << >>
    /\ LET vd == ValidData(Head(tx.todo), tx.model, tx.now)
           r  == UpsertStatement(tx.working, seq[tx.model], vd, tx.model)
       IN  /\ seq' = [ seq EXCEPT ![tx.model] = r.seq ]
           /\ IF r.ok
              THEN /\ tx' = [ tx EXCEPT !.todo = Tail(tx.todo), !.working = r.table ]
                   /\ silver' = silver
              ELSE /\ tx' = [ tx EXCEPT !.state = "raised" ]
                   /\ silver' = [ silver EXCEPT ![tx.model] = Rollback(silver[tx.model], tx.working) ]
    /\ UNCHANGED <<api, pc, result, log, storage, env, sync, bronze, dim_date, metric_entry, collections, clock, call>>

\* session.commit() after the loop: the working copy becomes the table
UpsertCommit ==
    /\ tx.state = "open" /\ tx.kind = "dim" /\ tx.todo = << >>
    /\ silver' = [ silver EXCEPT ![tx.model] = tx.working ]
    /\ tx' = [ tx EXCEPT !.state = "committed" ]
    /\ UNCHANGED <<api, pc, result, log, storage, env, sync, bronze, dim_date, metric_entry, seq, collections, clock, call>>

-----------------------------------------------------------------------------
(* _upsert_polars_to_silver applied to batches of assets *)

\* Rows of bronze.assets: the columns of the source file, one of them
\* (owner) unknown to DimAsset; resource_name and source_timestamp may be None.
AssetRows ==
    LET \* "RES-AB12-CD34", "res-zz99-0001"
        Serials ==
            { << "R", "E", "S", "-", "A", "B", "1", "2", "-", "C", "D", "3", "4" >>,
              << "r", "e", "s", "-", "z", "z", "9", "9", "-", "0", "0", "0", "1" >> }
        \* " db one ", "db-2"
        ResourceNames ==
            { << " ", "d", "b", " ", "o", "n", "e", " " >>,
              << "d", "b", "-", "2" >> }
    IN
    [ serial_number : Serials,
      resource_name : ResourceNames \cup {None},
      description : { << "m", "a", "i", "n" >> },
      created_at : { 19367 },
      source_timestamp : { NoTime, 5 },
      owner : { "ops" } ]

Batches(rows) == UNION { [ 1..n -> rows ] : n \in 0..MaxBatchLen }

\* No method has been invoked yet
NoCall ==
    [ phase |-> "none", outcome |-> "none", batch |-> << >>, before |-> {},
      now |-> NoTime, cal |-> "none" ]

\* self._upsert_polars_to_silver(df, DimAsset, "serial_number"), a first
\* and then a second time: now is read before the Session opens.
CallUpsert ==
    /\ tx.state = "closed" /\ call.outcome # "running"
    /\ call.phase \in { "none", "first" }
    /\ \E batch \in Batches(AssetRows) :
         /\ clock' = clock + 1
         /\ tx' = TxOpen("dim", "dim_asset", batch, silver["dim_asset"], clock')
         /\ call' = [ call EXCEPT
                        !.phase = IF call.phase = "none" THEN "first" ELSE "second",
                        !.outcome = "running", !.batch = batch,
                        !.before = silver["dim_asset"], !.now = clock' ]
    /\ UNCHANGED <<api, pc, result, log, storage, env, sync, bronze, silver, dim_date, metric_entry, seq, collections>>

\* The method returns, or the exception leaves it
ReturnWrite ==
    /\ call.outcome = "running" /\ tx.state \in { "committed", "raised" }
    /\ call' = [ call EXCEPT !.outcome = tx.state ]
    /\ tx' = TxClosed
    /\ UNCHANGED <<api, pc, result, log, storage, env, sync, bronze, silver, dim_date, metric_entry, seq, collections, clock>>

\* The state PREPARE leaves: the tables exist and are empty
EmptySilver == [ m \in Range(DimTables) |-> {} ]

\* Nothing is running; the bucket and the staging area are empty
InitIdle ==
    /\ storage = << >>
    /\ bronze = NoBronze
    /\ clock = 10
    /\ tx = TxClosed
    /\ sync = SyncIdle
    /\ pc = Idle /\ result = "none" /\ log = << >>
    /\ call = NoCall
    /\ api = NoRequest

\* The search engine is reachable and holds nothing; the host is on UTC
InitSearch ==
    /\ collections = NoCollections
    /\ env = [ search |-> "up", utc_offset |-> 0 ]

InitWarehouse ==
    /\ silver = EmptySilver
    /\ seq = [ m \in Range(DimTables) \cup { "metric_entry", "dim_date" } |-> 0 ]
    /\ dim_date = {}
    /\ metric_entry = {}

InitUpsert == InitIdle /\ InitSearch /\ InitWarehouse

NextUpsert == CallUpsert \/ UpsertRow \/ UpsertCommit \/ ReturnWrite

SpecUpsert == InitUpsert /\ [][NextUpsert]_vars

-----------------------------------------------------------------------------
(* Calendar Generator: DateDimensionGenerator.generate_range *)

\* Dates are days since 1970-01-01 (day 0).
DaysInMonth(y, m) ==
    LET IsLeap == (y % 4 = 0 /\ y % 100 # 0) \/ y % 400 = 0
    IN  IF m = 2 THEN (IF IsLeap THEN 29 ELSE 28)
        ELSE IF m \in { 4, 6, 9, 11 } THEN 30 ELSE 31

\* date(y, m, d) as a day number
DayNumber(y, m, d) ==
    LET LeapDaysThrough(year) == (year \div 4) - (year \div 100) + (year \div 400)
        before_month[k \in 1..12] ==
            IF k = 1 THEN 0 ELSE before_month[k - 1] + DaysInMonth(y, k - 1)
    IN  365 * (y - 1970) + (LeapDaysThrough(y - 1) - LeapDaysThrough(1969))
          + before_month[m] + (d - 1)

\* dt.weekday(): Monday is 1, Sunday is 7 (1970-01-01 was a Thursday)
Weekday(n) == ((n + 3) % 7) + 1

DateRow(y, m, d) ==
    LET MonthNames ==
            << "January", "February", "March", "April", "May", "June", "July",
               "August", "September", "October", "November", "December" >>
        DayNames ==
            << "Monday", "Tuesday", "Wednesday", "Thursday", "Friday", "Saturday", "Sunday" >>
    IN
    [ full_date   |-> DayNumber(y, m, d),
      year        |-> y,
      month       |-> m,
      month_name  |-> MonthNames[m],
      day         |-> d,
      day_of_week |-> Weekday(DayNumber(y, m, d)),
      day_name    |-> DayNames[Weekday(DayNumber(y, m, d))],
      quarter     |-> ((m - 1) \div 3) + 1,
      is_weekend  |-> Weekday(DayNumber(y, m, d)) \in { 6, 7 } ]

\* One row per calendar day of [start_year-01-01, end_year-12-31]
generate_range(start_year, end_year) ==
    UNION { UNION { { DateRow(y, m, d) : d \in 1..DaysInMonth(y, m) }
                    : m \in 1..12 }
            : y \in start_year..end_year }

\* The years _seed_calendar asks for
CalendarStartYear == 2023
CalendarEndYear == 2026

\* dates_df.write_database(.., if_table_exists="append"): the rows in date
\* order, each taking the next id of the sequence
AppendDates(rows, first_id, start_year) ==
    { [ c \in DOMAIN r \cup {"id"} |->
          IF c = "id" THEN first_id + (r.full_date - DayNumber(start_year, 1, 1))
          ELSE r[c] ]
      : r \in rows }

\* dim_date is only ever written by appending a whole generated calendar,
\* in one transaction: the table is kept as the set of calendars appended,
\* each with the id its first row took, and its rows are DimDateRows.
Calendar(first_id, start_year, end_year) ==
    [ first_id |-> first_id, start_year |-> start_year, end_year |-> end_year ]

DimDateRows(calendars) ==
    UNION { AppendDates(generate_range(b.start_year, b.end_year), b.first_id, b.start_year)
            : b \in calendars }

CalendarDays(b) ==
    DayNumber(b.end_year, 12, 31) - DayNumber(b.start_year, 1, 1) + 1

\* The ids and the dates of the rows of dim_date
DimDateIds(calendars) ==
    UNION { b.first_id .. (b.first_id + CalendarDays(b) - 1) : b \in calendars }

\* Faulty variant: the check for an existing row is dropped
CalendarNeverExists(dates) == FALSE

\* with Session: session.exec(select(DimDate).limit(1)).first()
CalendarExists(dates) == dates # {}

-----------------------------------------------------------------------------
(* Fact CDC Processor: SeedService._process_metrics *)

\* MetricEntry.model_fields
MetricFields ==
    { "id", "asset_id", "provider_id", "region_id", "team_id", "service_type_id",
      "date_id", "environment_id", "status_id", "cost_center_id",
      "security_tier_id", "hardware_profile_id", "cpu_usage_avg",
      "memory_usage_avg", "hourly_cost", "uptime_seconds", "source_timestamp",
      "updated_at" }

\* Field(foreign_key=..): the dimension table each key column refers to
ForeignKeys ==
    [ asset_id |-> "dim_asset", provider_id |-> "dim_provider",
      region_id |-> "dim_region", team_id |-> "dim_team",
      service_type_id |-> "dim_service_type", environment_id |-> "dim_environment",
      status_id |-> "dim_status", cost_center_id |-> "dim_cost_center",
      security_tier_id |-> "dim_security_tier",
      hardware_profile_id |-> "dim_hardware_profile" ]

DELETE == << "D", "E", "L", "E", "T", "E" >>
UPSERT == << "U", "P", "S", "E", "R", "T" >>

\* Faulty variant: the action is compared as written
CdcActionAsWritten(row) ==
    IF "action" \in DOMAIN row THEN row["action"] ELSE UPSERT

\* str(row.get("action", "UPSERT")).upper()
CdcAction(row) ==
    Upper(IF "action" \in DOMAIN row THEN row["action"] ELSE UPSERT)

\* Faulty variant: the row is written as it came, unknown columns included
CleanRowUnfiltered(row) == row

\* {k: v for k, v in row.items() if k in allowed_fields}
CleanRow(row) == [ c \in DOMAIN row \cap MetricFields |-> row[c] ]

\* Faulty variant: the DELETE matches on the asset alone
DeleteMatchesAssetOnly(t, clean_row) == t.asset_id = clean_row.asset_id

\* where(MetricEntry.asset_id == .., MetricEntry.date_id == ..)
DeleteMatches(t, clean_row) ==
    t.asset_id = clean_row.asset_id /\ t.date_id = clean_row.date_id

\* Faulty variant: a conflicting row is left as it is (ON CONFLICT DO NOTHING)
OnConflictKeepOld(old, clean_row) == old

\* on_conflict_do_update(index_elements=["asset_id", "date_id"], set_=clean_row)
OnConflictSetFact(old, clean_row) ==
    [ c \in DOMAIN old |-> IF c \in DOMAIN clean_row THEN clean_row[c] ELSE old[c] ]

\* One iteration of the loop: the DELETE or the INSERT .. ON CONFLICT
\* statement of the row against `table`.  ok = FALSE: the statement raises.
\* updated_at of an inserted row is its column default, the time `now` of
\* the statement; the columns without default must be given.
CdcStatement(table, sq, row, dims, dates, now) ==
    LET action    == CdcAction(row)
        clean_row == CleanRow(row)
        required  == MetricFields \ { "id", "updated_at" }
        existing  == { t \in table : t.asset_id = clean_row.asset_id
                                     /\ t.date_id = clean_row.date_id }
        inserted  == [ c \in DOMAIN clean_row \cup { "id", "updated_at" } |->
                         IF c \in DOMAIN clean_row THEN clean_row[c]
                         ELSE IF c = "id" THEN sq + 1 ELSE now ]
        \* the row breaks a foreign key of silver.metric_entry
        BreaksForeignKey ==
            \/ \E c \in DOMAIN ForeignKeys \cap DOMAIN clean_row :
                 clean_row[c] \notin { t.id : t \in dims[ForeignKeys[c]] }
            \/ "date_id" \in DOMAIN clean_row /\ clean_row.date_id \notin DimDateIds(dates)
    IN  IF ~ ({ "asset_id", "date_id" } \subseteq DOMAIN clean_row)
        THEN [ ok |-> FALSE, table |-> table, seq |-> sq ]
        ELSE IF action = DELETE
        THEN [ ok |-> TRUE,
               table |-> { t \in table : ~ DeleteMatches(t, clean_row) },
               seq |-> sq ]
        ELSE IF ~ (required \subseteq DOMAIN clean_row)
                \/ BreaksForeignKey
        THEN [ ok |-> FALSE, table |-> table, seq |-> sq + 1 ]
        ELSE IF existing = {}
        THEN [ ok |-> TRUE, table |-> table \cup {inserted}, seq |-> sq + 1 ]
        ELSE [ ok |-> TRUE,
               table |-> (table \ existing)
                           \cup { OnConflictSetFact(t, clean_row) : t \in existing },
               seq |-> sq + 1 ]

\* session.exec(del_stmt) / session.exec(upsert_stmt) for the next row
CdcRow ==
    /\ tx.state = "open" /\ tx.kind = "fact" /\ tx.todo # << >>
    /\ LET row == Head(tx.todo)
           r   == CdcStatement(tx.working, seq["metric_entry"], row, silver, dim_date, clock + 1)
       IN  /\ seq' = [ seq EXCEPT !["metric_entry"] = r.seq ]
           /\ clock' = IF CdcAction(row) = DELETE THEN clock ELSE clock + 1
           /\ IF r.ok
              THEN /\ tx' = [ tx EXCEPT !.todo = Tail(tx.todo), !.working = r.table ]
                   /\ metric_entry' = metric_entry
              ELSE /\ tx' = [ tx EXCEPT !.state = "raised" ]
                   /\ metric_entry' = Rollback(metric_entry, tx.working)
    /\ UNCHANGED <<api, pc, result, log, storage, env, sync, bronze, silver, dim_date, collections, call>>

\* session.commit() after the loop
CdcCommit ==
    /\ tx.state = "open" /\ tx.kind = "fact" /\ tx.todo = << >>
    /\ metric_entry' = tx.working
    /\ tx' = [ tx EXCEPT !.state = "committed" ]
    /\ UNCHANGED <<api, pc, result, log, storage, env, sync, bronze, silver, dim_date, seq, collections, clock, call>>

-----------------------------------------------------------------------------
(* _seed_calendar and _process_metrics applied to a warehouse whose *)
(* dimensions are loaded *)

\* A stored dimension row with the given id and business key
DimRow(model, id, key) ==
    [ c \in ModelFields(model) |->
        IF c = "id" THEN id
        ELSE IF c = UniqueCol(model) THEN key
        ELSE IF c \in TextCols THEN << "x" >>
        ELSE IF c \in { "is_active", "is_ephemeral", "encryption_required",
                        "is_managed", "is_billable" } THEN TRUE
        ELSE IF c \in { "source_timestamp", "updated_at" } THEN 5
        ELSE IF c = "created_at" THEN 19367
        ELSE 1 ]

\* Every dimension holds the row of id 1; dim_asset also the row of id 2
LoadedSilver ==
    [ m \in Range(DimTables) |->
        IF m = "dim_asset"
        THEN { DimRow(m, 1, << "R", "E", "S", "-", "A", "B", "1", "2", "-", "C", "D", "3", "4" >>),
               DimRow(m, 2, << "r", "e", "s", "-", "z", "z", "9", "9", "-", "0", "0", "0", "1" >>) }
        ELSE { DimRow(m, 1, << "k", "1" >>) } ]

\* A row of bronze.metric_entries; batch_ref is no column of MetricEntry
MetricRow(asset, date, cpu) ==
    [ asset_id |-> asset, date_id |-> date, provider_id |-> 1, region_id |-> 1,
      team_id |-> 1, service_type_id |-> 1, environment_id |-> 1, status_id |-> 1,
      cost_center_id |-> 1, security_tier_id |-> 1, hardware_profile_id |-> 1,
      cpu_usage_avg |-> cpu, memory_usage_avg |-> 40, hourly_cost |-> 2,
      uptime_seconds |-> 3600, source_timestamp |-> 5, batch_ref |-> "f1" ]

WithAction(row, action) ==
    [ c \in DOMAIN row \cup {"action"} |-> IF c = "action" THEN action ELSE row[c] ]

\* The (asset_id, date_id) pairs of the batches; asset 3 is in no dim_asset;
\* the row with the action written out reports a CPU usage of 150
MetricRows ==
    LET MetricKeys == { <<1, 1>>, <<1, 2>>, <<2, 1>> } IN
    { MetricRow(k[1], k[2], cpu) : k \in MetricKeys, cpu \in { 10, 90 } }
    \cup { WithAction(MetricRow(k[1], k[2], 10), DELETE) : k \in MetricKeys }
    \cup { WithAction(MetricRow(1, 1, 10), << "d", "e", "l", "e", "t", "e" >>),
           WithAction(MetricRow(1, 2, 10), << "D", "e", "l", "e", "t", "e" >>),
           WithAction(MetricRow(2, 1, 150), UPSERT),
           MetricRow(3, 1, 10) }

\* A stored fact row
StoredMetric(id, asset, date, cpu) ==
    [ c \in MetricFields |->
        IF c = "id" THEN id
        ELSE IF c = "updated_at" THEN 6
        ELSE MetricRow(asset, date, cpu)[c] ]


\* self._seed_calendar() is invoked, a first or a further time
CallSeedCalendar ==
    /\ pc = Idle /\ tx.state = "closed" /\ call.outcome # "running"
    /\ call.cal \in { "none", "seeded" }
    /\ call' = [ call EXCEPT !.cal = "invoked" ]
    /\ UNCHANGED <<api, pc, result, log, storage, env, sync, bronze, silver, dim_date,
                   metric_entry, seq, collections, clock, tx>>

\* _seed_calendar, first part: the check for an existing row
SeedCalendarCheck ==
    /\ call.cal = "invoked"
    /\ call' = [ call EXCEPT !.cal = IF CalendarExists(dim_date)
                                     THEN "skipped" ELSE "generating" ]
    /\ UNCHANGED <<api, pc, result, log, storage, env, sync, bronze, silver, dim_date, metric_entry, seq,
                   collections, clock, tx>>

\* _seed_calendar, second part: generate_range(2023, 2026) appended.
\* A date or id already in the table makes the write raise.
SeedCalendarWrite ==
    /\ call.cal = "generating"
    /\ LET b == Calendar(seq["dim_date"] + 1, CalendarStartYear, CalendarEndYear)
           \* the days (full_date) the calendars hold
           DimDateDays(calendars) ==
               UNION { DayNumber(c.start_year, 1, 1) .. DayNumber(c.end_year, 12, 31) :
                         c \in calendars }
       IN  IF DimDateIds({b}) \cap DimDateIds(dim_date) # {}
              \/ DimDateDays({b}) \cap DimDateDays(dim_date) # {}
           THEN /\ call' = [ call EXCEPT !.cal = "raised" ]
                /\ UNCHANGED <<dim_date, seq>>
           ELSE /\ call' = [ call EXCEPT !.cal = "seeded" ]
                /\ dim_date' = dim_date \cup {b}
                /\ seq' = [ seq EXCEPT !["dim_date"] = @ + CalendarDays(b) ]
    /\ UNCHANGED <<api, pc, result, log, storage, env, sync, bronze, silver, metric_entry, collections, clock, tx>>

\* self._process_metrics() on a batch of bronze.metric_entries
CallProcessMetrics ==
    /\ tx.state = "closed" /\ call.outcome = "none"
    /\ call.cal \notin { "invoked", "generating" }
    /\ \E batch \in Batches(MetricRows) :
         /\ tx' = TxOpen("fact", "metric_entry", batch, metric_entry, clock)
         /\ call' = [ call EXCEPT !.phase = "first", !.outcome = "running",
                                  !.batch = batch, !.before = metric_entry,
                                  !.now = clock ]
    /\ UNCHANGED <<api, pc, result, log, storage, env, sync, bronze, silver, dim_date, metric_entry, seq,
                   collections, clock>>

\* Either the calendar is still to be seeded and there are no facts, or it
\* is seeded and the fact table is one of StoredMetricTables.
InitFacts ==
    LET StoredMetricTables ==
            { {},
              { StoredMetric(1, 1, 1, 10) },
              { StoredMetric(1, 1, 1, 90), StoredMetric(2, 1, 2, 10) },
              { StoredMetric(1, 2, 1, 10), StoredMetric(2, 1, 2, 10), StoredMetric(3, 1, 1, 90) } }
    IN
    /\ InitIdle /\ InitSearch
    /\ silver = LoadedSilver
    /\ \/ dim_date = {} /\ metric_entry = {}
       \/ /\ dim_date = { Calendar(1, CalendarStartYear, CalendarEndYear) }
          /\ metric_entry \in StoredMetricTables
    /\ seq = [ m \in Range(DimTables) \cup { "metric_entry", "dim_date" } |->
                 IF m = "metric_entry" THEN Cardinality(metric_entry)
                 ELSE IF m = "dim_date" THEN Cardinality(DimDateIds(dim_date))
                 ELSE Cardinality(silver[m]) ]

NextFacts ==
    \/ CallSeedCalendar \/ SeedCalendarCheck \/ SeedCalendarWrite
    \/ CallProcessMetrics \/ CdcRow \/ CdcCommit \/ ReturnWrite

SpecFacts == InitFacts /\ [][NextFacts]_vars

-----------------------------------------------------------------------------
(* Domain models: model_validate of a warehouse row, then model_dump *)

\* EmailStr: one @ between a local part and a dotted domain, no blank; the
\* validated value has its domain in lower case
IsEmail(v) ==
    /\ Cardinality({ i \in DOMAIN v : v[i] = "@" }) = 1
    /\ \A i \in DOMAIN v : ~ IsSpace(v[i])
    /\ LET at == CHOOSE i \in DOMAIN v : v[i] = "@"
       IN  /\ at > 1
           /\ at + 1 < Len(v)
           /\ v[at + 1] # "." /\ v[Len(v)] # "."
           /\ \E i \in (at + 2)..(Len(v) - 1) : v[i] = "."

NormalEmail(v) ==
    LET at == CHOOSE i \in DOMAIN v : v[i] = "@"
    IN  [ i \in DOMAIN v |-> IF i > at THEN LowerChar(v[i]) ELSE v[i] ]

\* The text fields are declared str: None is no str
IsText(record, cols) == \A c \in cols : record[c] # None

\* resource_name has min_length 3 and is cleaned after the check;
\* serial_number is stripped and upper-cased, then matched
AssetDomain(record) ==
    LET
        \* re.match(r"^RES-[A-Z0-9]{4}-[A-Z0-9]{4}$", v)
        MatchesSerial(v) ==
            LET IsUpperAlnum(ch) == IsUpper(ch) \/ IsDigit(ch) IN
            /\ Len(v) = 13
            /\ SubSeq(v, 1, 4) = << "R", "E", "S", "-" >>
            /\ v[9] = "-"
            /\ \A i \in (5..8) \cup (10..13) : IsUpperAlnum(v[i])
        serial == Upper(Strip(record.serial_number))
    IN  [ ok  |-> /\ IsText(record, { "resource_name", "serial_number", "description" })
                  /\ Len(record.resource_name) >= 3
                  /\ MatchesSerial(serial),
          obj |-> [ record EXCEPT !.resource_name = Title(Strip(@)),
                                  !.serial_number = serial ] ]

CostCenterDomain(record) ==
    LET
        \* re.match(r"^CC-\d{4}$", v)
        MatchesCenterCode(v) ==
            /\ Len(v) = 7
            /\ SubSeq(v, 1, 3) = << "C", "C", "-" >>
            /\ \A i \in 4..7 : IsDigit(v[i])
        code == Upper(Strip(record.center_code))
    IN  [ ok  |-> /\ IsText(record, { "center_code", "department" })
                  /\ MatchesCenterCode(code)
                  /\ record.budget_limit > 0,
          obj |-> [ record EXCEPT !.center_code = code ] ]

\* clean_env_name runs before the Literal check
EnvironmentDomain(record) ==
    LET
        \* str.capitalize()
        Capitalize(str) ==
            [ i \in DOMAIN str |-> IF i = 1 THEN UpperChar(str[i]) ELSE LowerChar(str[i]) ]
        \* Literal["Production", "Staging", "Development", "UAT", "Sandbox"]
        EnvNames ==
            { << "P", "r", "o", "d", "u", "c", "t", "i", "o", "n" >>,
              << "S", "t", "a", "g", "i", "n", "g" >>,
              << "D", "e", "v", "e", "l", "o", "p", "m", "e", "n", "t" >>,
              << "U", "A", "T" >>,
              << "S", "a", "n", "d", "b", "o", "x" >> }
        \* Literal["Mission Critical", "Standard", "Low Impact"]
        EnvTiers ==
            { << "M", "i", "s", "s", "i", "o", "n", " ", "C", "r", "i", "t", "i", "c", "a", "l" >>,
              << "S", "t", "a", "n", "d", "a", "r", "d" >>,
              << "L", "o", "w", " ", "I", "m", "p", "a", "c", "t" >> }
        cleaned == Upper(Strip(record.env_name))
        name    == IF cleaned = << "U", "A", "T" >> THEN cleaned ELSE Capitalize(cleaned)
    IN  [ ok  |-> name \in EnvNames /\ record.tier \in EnvTiers,
          obj |-> [ record EXCEPT !.env_name = name ] ]

HardwareProfileDomain(record) ==
    [ ok  |-> /\ IsText(record, { "profile_name" })
              /\ record.cpu_count > 0 /\ record.ram_gb > 0,
      obj |-> [ record EXCEPT !.profile_name = Lower(Strip(@)) ] ]

\* the before-validators run first: min_length 2 is checked on the cleaned name
ProviderDomain(record) ==
    LET
        \* Literal["Public Cloud", "Private Cloud", "On-Premise"]
        ProviderTypes ==
            { << "P", "u", "b", "l", "i", "c", " ", "C", "l", "o", "u", "d" >>,
              << "P", "r", "i", "v", "a", "t", "e", " ", "C", "l", "o", "u", "d" >>,
              << "O", "n", "-", "P", "r", "e", "m", "i", "s", "e" >> }
        name == Upper(Strip(record.provider_name))
        type == Title(Strip(record.provider_type))
    IN  [ ok  |-> /\ IsText(record, { "provider_name", "support_contact" })
                  /\ Len(name) >= 2
                  /\ type \in ProviderTypes
                  /\ IsEmail(record.support_contact),
          obj |-> [ record EXCEPT !.provider_name = name, !.provider_type = type,
                                  !.support_contact = NormalEmail(@) ] ]

RegionDomain(record) ==
    LET
        \* re.match(r"^[a-z0-9\-]+$", v)
        MatchesRegionCode(v) ==
            /\ Len(v) >= 1
            /\ \A i \in DOMAIN v : IsLower(v[i]) \/ IsDigit(v[i]) \/ v[i] = "-"
        code == Lower(Strip(record.region_code))
    IN  [ ok  |-> /\ IsText(record, { "region_code", "display_name", "continent" })
                  /\ MatchesRegionCode(code),
          obj |-> [ record EXCEPT !.region_code = code ] ]

SecurityTierDomain(record) ==
    LET
        \* Literal["Public", "Internal", "Confidential", "Restricted"]
        TierNames ==
            { << "P", "u", "b", "l", "i", "c" >>,
              << "I", "n", "t", "e", "r", "n", "a", "l" >>,
              << "C", "o", "n", "f", "i", "d", "e", "n", "t", "i", "a", "l" >>,
              << "R", "e", "s", "t", "r", "i", "c", "t", "e", "d" >> }
        name == Title(Strip(record.tier_name))
    IN  [ ok  |-> name \in TierNames /\ IsText(record, { "compliance_standard" }),
          obj |-> [ record EXCEPT !.tier_name = name ] ]

ServiceTypeDomain(record) ==
    LET
        \* Literal["Compute", "Storage", "Database", "Networking", "Security", "Other"]
        Categories ==
            { << "C", "o", "m", "p", "u", "t", "e" >>,
              << "S", "t", "o", "r", "a", "g", "e" >>,
              << "D", "a", "t", "a", "b", "a", "s", "e" >>,
              << "N", "e", "t", "w", "o", "r", "k", "i", "n", "g" >>,
              << "S", "e", "c", "u", "r", "i", "t", "y" >>,
              << "O", "t", "h", "e", "r" >> }
        name     == Upper(Strip(record.service_name))
        category == Title(Strip(record.category))
    IN  [ ok  |-> /\ IsText(record, { "service_name" })
                  /\ Len(name) >= 2
                  /\ category \in Categories,
          obj |-> [ record EXCEPT !.service_name = name, !.category = category ] ]

StatusDomain(record) ==
    LET name == Upper(Strip(record.status_name))
    IN  [ ok  |-> IsText(record, { "status_name", "description" }) /\ Len(name) >= 2,
          obj |-> [ record EXCEPT !.status_name = name ] ]

TeamDomain(record) ==
    LET name == Title(Strip(record.team_name))
    IN  [ ok  |-> /\ IsText(record, { "team_name", "department", "lead_email" })
                  /\ Len(name) >= 2
                  /\ IsEmail(record.lead_email),
          obj |-> [ record EXCEPT !.team_name = name,
                                  !.department = Title(Strip(@)),
                                  !.lead_email = NormalEmail(@) ] ]

\* domain_model.model_validate(record): ok = FALSE is a ValidationError;
\* obj is what model_dump() returns
DomainValidate(model, record) ==
    CASE model = "dim_asset"            -> AssetDomain(record)
      [] model = "dim_cost_center"      -> CostCenterDomain(record)
      [] model = "dim_environment"      -> EnvironmentDomain(record)
      [] model = "dim_hardware_profile" -> HardwareProfileDomain(record)
      [] model = "dim_provider"         -> ProviderDomain(record)
      [] model = "dim_region"           -> RegionDomain(record)
      [] model = "dim_security_tier"    -> SecurityTierDomain(record)
      [] model = "dim_service_type"     -> ServiceTypeDomain(record)
      [] model = "dim_status"           -> StatusDomain(record)
      [] model = "dim_team"             -> TeamDomain(record)

-----------------------------------------------------------------------------
(* Search Sync Engine: SeedService._sync_to_typesense, SearchService.index_asset *)

SecondsPerDay == 86400

\* int(value.timestamp()) of a datetime read back from the warehouse (it
\* carries no zone and is taken as local time) and
\* int(datetime.combine(value, datetime.min.time()).timestamp()) of a date:
\* midnight local time of the day
LocalTimestamp(seconds, utc_offset) == seconds - utc_offset

\* Step 2 of the loop body: the id as a string, dates as Unix timestamps
FormatDoc(obj, utc_offset) ==
    [ c \in DOMAIN obj |->
        IF c = "id" THEN Str(obj[c])
        ELSE IF c \in { "source_timestamp", "updated_at" }
             THEN IF obj[c] = NoTime THEN NoTime ELSE LocalTimestamp(obj[c], utc_offset)
        ELSE IF c = "created_at" THEN LocalTimestamp(obj[c] * SecondsPerDay, utc_offset)
        ELSE obj[c] ]

\* Faulty variant: a document is only written to a collection that is there
index_asset_existing_only(colls, collection_name, document, reachable) ==
    IF ~ reachable \/ ~ colls[collection_name].exists THEN colls
    ELSE [ colls EXCEPT ![collection_name] =
             [ exists |-> TRUE,
               docs |-> { d \in @.docs : d.id # document.id } \cup { document } ] ]

\* index_asset(collection_name, document): the collection is created when
\* it is missing and the document replaces the one with its id; when the
\* search engine cannot be reached the exception is logged and dropped
index_asset(colls, collection_name, document, reachable) ==
    IF ~ reachable THEN colls
    ELSE [ colls EXCEPT ![collection_name] =
             [ exists |-> TRUE,
               docs |-> { d \in @.docs : d.id # document.id } \cup { document } ] ]

\* Faulty variant: a record that fails validation ends the loop
RaiseOnRecordError(s) == [ s EXCEPT !.state = "raised" ]

\* except Exception as e: the record is logged, the loop goes on
OnRecordError(s) == [ s EXCEPT !.todo = Tail(@) ]

\* One iteration of the loop of _sync_to_typesense
SyncRecord ==
    /\ sync.state = "running" /\ sync.todo # << >>
    /\ LET record == Head(sync.todo)
           v      == DomainValidate(sync.model, record)
       IN  IF v.ok
           THEN /\ collections' = index_asset(collections, CollectionName(sync.model),
                                              FormatDoc(v.obj, env.utc_offset),
                                              env.search # "down")
                /\ sync' = [ sync EXCEPT !.todo = Tail(@) ]
           ELSE /\ collections' = collections
                /\ sync' = OnRecordError(sync)
    /\ UNCHANGED <<api, pc, result, log, storage, env, bronze, silver, dim_date,
                   metric_entry, seq, clock, tx, call>>

\* The loop is over: _sync_to_typesense returns
SyncReturn ==
    /\ sync.state = "running" /\ sync.todo = << >>
    /\ sync' = [ sync EXCEPT !.state = "returned" ]
    /\ UNCHANGED <<api, pc, result, log, storage, env, bronze, silver, dim_date,
                   metric_entry, seq, collections, clock, tx, call>>

\* The pipeline is at a step that calls the search engine
SearchInUse ==
    pc.step \in { "cleanup_typesense", "dimensions" } \/ sync.state = "running"

\* The search engine stops answering, once, while the pipeline works
SearchOutage ==
    /\ SearchInUse /\ env.search = "up"
    /\ env' = [ env EXCEPT !.search = "down" ]
    /\ UNCHANGED <<api, pc, result, log, storage, bronze, silver, dim_date, metric_entry,
                   seq, collections, clock, tx, sync, call>>

\* The search engine answers again
SearchRestored ==
    /\ SearchInUse /\ env.search = "down"
    /\ env' = [ env EXCEPT !.search = "restored" ]
    /\ UNCHANGED <<api, pc, result, log, storage, bronze, silver, dim_date, metric_entry,
                   seq, collections, clock, tx, sync, call>>

-----------------------------------------------------------------------------
(* _sync_to_typesense applied to the rows of silver.dim_asset *)

\* A stored asset
StoredAsset(id, serial, name) ==
    [ id |-> id, serial_number |-> serial, resource_name |-> name,
      description |-> << "m", "a", "i", "n" >>, created_at |-> 19367, is_active |-> TRUE,
      source_timestamp |-> 5, updated_at |-> 6 ]

\* Two assets that pass AssetDomain, one whose serial has no second group
\* ("RES-1234") and one whose name is too short ("db")
StoredAssets ==
    { StoredAsset(1, << "R", "E", "S", "-", "A", "B", "1", "2", "-", "C", "D", "3", "4" >>, << " ", "d", "b", " ", "o", "n", "e", " " >>),
      StoredAsset(2, << " ", "r", "e", "s", "-", "z", "z", "9", "9", "-", "0", "0", "0", "1" >>, << "d", "b", "-", "2" >>),
      StoredAsset(3, << "R", "E", "S", "-", "1", "2", "3", "4" >>, << "d", "b", "-", "3" >>),
      StoredAsset(4, << "R", "E", "S", "-", "Q", "Q", "1", "1", "-", "W", "W", "2", "2" >>, << "d", "b" >>) }

\* The orders in which SELECT * may return the rows of a table
Orders(rows) == { f \in [ 1..Cardinality(rows) -> rows ] : Range(f) = rows }

\* Documents a previous run left: the one of asset 3 and one of an asset
\* that is gone
StaleDocs ==
    { FormatDoc(StoredAsset(3, << "R", "E", "S", "-", "O", "L", "D", "3", "-", "0", "0", "0", "3" >>, << "d", "b", "-", "3" >>), 0),
      FormatDoc(StoredAsset(9, << "R", "E", "S", "-", "G", "O", "N", "E", "-", "0", "0", "0", "9" >>, << "d", "b", "-", "3" >>), 0) }

\* self._sync_to_typesense(silver_df, AssetDomain, "AssetDomain")
CallSync ==
    /\ call.outcome = "none" /\ sync.state = "idle"
    /\ \E records \in Orders(silver["dim_asset"]) :
         /\ sync' = [ state |-> "running", model |-> "dim_asset", todo |-> records ]
         /\ call' = [ call EXCEPT !.phase = "first", !.outcome = "running",
                                  !.batch = records,
                                  !.before = collections["AssetDomain"].docs ]
    /\ UNCHANGED <<api, pc, result, log, storage, env, bronze, silver, dim_date,
                   metric_entry, seq, collections, clock, tx>>

\* The method returns, or an exception leaves it
ReturnSync ==
    /\ call.outcome = "running" /\ sync.state \in { "returned", "raised" }
    /\ call' = [ call EXCEPT !.outcome = sync.state ]
    /\ sync' = SyncIdle
    /\ UNCHANGED <<api, pc, result, log, storage, env, bronze, silver, dim_date,
                   metric_entry, seq, collections, clock, tx>>

InitSync ==
    /\ InitIdle
    /\ silver \in { [ EmptySilver EXCEPT !["dim_asset"] = rows ] : rows \in SUBSET StoredAssets }
    /\ seq = [ m \in Range(DimTables) \cup { "metric_entry", "dim_date" } |->
                 IF m = "dim_asset" THEN 4 ELSE 0 ]
    /\ dim_date = {} /\ metric_entry = {}
    /\ collections \in { NoCollections,
                         [ NoCollections EXCEPT !["AssetDomain"] =
                             [ exists |-> TRUE, docs |-> StaleDocs ] ] }
    /\ env \in [ search : { "up", "down" }, utc_offset : { 0, 7200 } ]

NextSync ==
    CallSync \/ SyncRecord \/ SyncReturn \/ ReturnSync \/ SearchOutage \/ SearchRestored

SpecSync == InitSync /\ [][NextSync]_vars

-----------------------------------------------------------------------------
(* Pipeline Orchestrator: SeedService.run_seed_process *)

\* Faulty variant: the facts are processed before the dimensions
StepOrderFactsFirst ==
    << "cleanup_database", "cleanup_typesense", "prepare", "ingest", "calendar",
       "metrics", "dimensions", "views" >>

\* The methods run_seed_process calls, in the order of its try block
StepOrder ==
    << "cleanup_database", "cleanup_typesense", "prepare", "ingest", "calendar",
       "dimensions", "metrics", "views" >>

Started(method, dim)  == [ method |-> method, dim |-> dim, event |-> "start" ]
Returned(method, dim) == [ method |-> method, dim |-> dim, event |-> "return" ]
Raised(method, dim)   == [ method |-> method, dim |-> dim, event |-> "raise" ]

\* The position at the start of a step; "done": run_seed_process has returned
Goto(step) ==
    [ step |-> step,
      dim  |-> IF step = "dimensions" THEN 1 ELSE 0,
      at   |-> IF step = "dimensions" THEN "read" ELSE "none" ]

\* The statement after the call of a step: the next call, or the return of
\* {"status": "success"}
Following(step) ==
    LET i == CHOOSE k \in DOMAIN StepOrder : StepOrder[k] = step
    IN  IF i = Len(StepOrder) THEN "done" ELSE StepOrder[i + 1]

\* Faulty variant: the exception of a step is logged and the run goes on
\* with the next step
AfterRaiseGoOn(step) ==
    [ pc |-> Goto(Following(step)),
      result |-> IF Following(step) = "done" THEN "success" ELSE "none" ]

\* except Exception as e: return {"status": "error", "message": str(e)}
AfterRaise(step) == [ pc |-> Goto("done"), result |-> "error" ]

\* The step at pc returns: events are what it adds to the log
Proceed(events) ==
    /\ pc' = Goto(Following(pc.step))
    /\ result' = IF Following(pc.step) = "done" THEN "success" ELSE result
    /\ log' = log \o events

\* The step at pc raises
Leave(events) ==
    /\ pc' = AfterRaise(pc.step).pc
    /\ result' = AfterRaise(pc.step).result
    /\ log' = log \o events

\* Faulty variant: the route without its authenticate dependency
seed_database_open ==
    /\ pc = Idle /\ result = "none"
    /\ api.op = "none" \/ api.status = 401
    /\ \E credentials \in Credentials :
         api' = [ op |-> "seed", credentials |-> credentials, status |-> 0 ]
    /\ UNCHANGED <<pc, result, log, storage, bronze, silver, dim_date, metric_entry, seq,
                   collections, env, clock, tx, sync, call>>

\* POST /v1/seed arrives: Depends(authenticate) is resolved before the body
\* of seed_database; when it raises, the request is answered 401 and the
\* body never runs
seed_database ==
    /\ pc = Idle /\ result = "none"
    /\ api.op = "none" \/ api.status = 401
    /\ \E credentials \in Credentials :
         api' = [ op |-> "seed", credentials |-> credentials,
                  status |-> IF authenticate(credentials) THEN 0 ELSE 401 ]
    /\ UNCHANGED <<pc, result, log, storage, bronze, silver, dim_date, metric_entry, seq,
                   collections, env, clock, tx, sync, call>>

\* The body of seed_database calls service.run_seed_process()
StartRun ==
    /\ api.op = "seed" /\ api.status = 0
    /\ pc = Idle /\ result = "none"
    /\ pc' = Goto(StepOrder[1])
    /\ UNCHANGED <<api, result, log, storage, bronze, silver, dim_date, metric_entry, seq,
                   collections, env, clock, tx, sync, call>>

\* run_seed_process has returned its dict, {"status": "success"} or
\* {"status": "error"}; seed_database returns it and the request is answered 200
SeedResponse ==
    /\ api.op = "seed" /\ api.status = 0
    /\ pc.step = "done"
    /\ api' = [ api EXCEPT !.status = 200 ]
    /\ UNCHANGED <<pc, result, log, storage, bronze, silver, dim_date, metric_entry, seq,
                   collections, env, clock, tx, sync, call>>

\* Faulty variant: only the bronze schema is dropped
CleanupDatabaseBronzeOnly ==
    /\ pc.step = "cleanup_database"
    /\ \E ok \in BOOLEAN :
         IF ok
         THEN /\ bronze' = NoBronze
              /\ UNCHANGED <<silver, dim_date, metric_entry, seq>>
              /\ Proceed(<< Started("_cleanup_database", 0), Returned("_cleanup_database", 0) >>)
         ELSE /\ UNCHANGED <<bronze, silver, dim_date, metric_entry, seq>>
              /\ Leave(<< Started("_cleanup_database", 0), Raised("_cleanup_database", 0) >>)
    /\ UNCHANGED <<api, storage, collections, env, clock, tx, sync, call>>

\* _cleanup_database: the three schemas are dropped in one transaction,
\* with them every table, row and id sequence; the database may refuse
CleanupDatabase ==
    /\ pc.step = "cleanup_database"
    /\ \E ok \in BOOLEAN :
         IF ok
         THEN /\ bronze' = NoBronze
              /\ silver' = EmptySilver
              /\ dim_date' = {} /\ metric_entry' = {}
              /\ seq' = [ m \in DOMAIN seq |-> 0 ]
              /\ Proceed(<< Started("_cleanup_database", 0), Returned("_cleanup_database", 0) >>)
         ELSE /\ UNCHANGED <<bronze, silver, dim_date, metric_entry, seq>>
              /\ Leave(<< Started("_cleanup_database", 0), Raised("_cleanup_database", 0) >>)
    /\ UNCHANGED <<api, storage, collections, env, clock, tx, sync, call>>

\* Faulty variant: a delete the engine does not answer leaves the loop, and
\* run_seed_process with it
CleanupTypesenseRaises ==
    /\ pc.step = "cleanup_typesense"
    /\ IF env.search # "down"
       THEN /\ collections' = NoCollections
            /\ Proceed(<< Started("_cleanup_typesense", 0), Returned("_cleanup_typesense", 0) >>)
       ELSE /\ collections' = collections
            /\ Leave(<< Started("_cleanup_typesense", 0), Raised("_cleanup_typesense", 0) >>)
    /\ UNCHANGED <<api, storage, bronze, silver, dim_date, metric_entry, seq, env, clock,
                   tx, sync, call>>

\* Faulty variant: the list of _cleanup_typesense lacks the assets
CleanupTypesenseNine ==
    /\ pc.step = "cleanup_typesense"
    /\ LET entities ==
               << "CostCenterDomain", "EnvironmentDomain", "HardwareProfileDomain",
                  "ProviderDomain", "RegionDomain", "SecurityTierDomain",
                  "ServiceTypeDomain", "StatusDomain", "TeamDomain" >>
       IN  collections' =
              [ c \in DOMAIN collections |->
                  IF c \in Range(entities) /\ env.search # "down"
                  THEN [ exists |-> FALSE, docs |-> {} ] ELSE collections[c] ]
    /\ Proceed(<< Started("_cleanup_typesense", 0), Returned("_cleanup_typesense", 0) >>)
    /\ UNCHANGED <<api, storage, bronze, silver, dim_date, metric_entry, seq, env, clock,
                   tx, sync, call>>

\* _cleanup_typesense: each collection is deleted; a delete that fails
\* (no such collection, no answer) is logged and skipped
CleanupTypesense ==
    /\ pc.step = "cleanup_typesense"
    /\ LET entities ==
               << "CostCenterDomain", "EnvironmentDomain", "HardwareProfileDomain",
                  "ProviderDomain", "RegionDomain", "SecurityTierDomain",
                  "ServiceTypeDomain", "StatusDomain", "TeamDomain", "AssetDomain" >>
       IN  collections' =
              [ c \in DOMAIN collections |->
                  IF c \in Range(entities) /\ env.search # "down"
                  THEN [ exists |-> FALSE, docs |-> {} ] ELSE collections[c] ]
    /\ Proceed(<< Started("_cleanup_typesense", 0), Returned("_cleanup_typesense", 0) >>)
    /\ UNCHANGED <<api, storage, bronze, silver, dim_date, metric_entry, seq, env, clock,
                   tx, sync, call>>

\* _prepare_database_environment: create_db_and_tables creates the schemas
\* and the tables that are missing (a table that is dropped and one that is
\* empty hold the same rows: none); errors of the view creation are logged
PrepareDatabaseEnvironment ==
    /\ pc.step = "prepare"
    /\ \E ok \in BOOLEAN :
         IF ok
         THEN Proceed(<< Started("_prepare_database_environment", 0),
                         Returned("_prepare_database_environment", 0) >>)
         ELSE Leave(<< Started("_prepare_database_environment", 0),
                       Raised("_prepare_database_environment", 0) >>)
    /\ UNCHANGED <<api, storage, bronze, silver, dim_date, metric_entry, seq, collections,
                   env, clock, tx, sync, call>>

\* The loop body of _ingest_all_to_bronze for one file.  ok = FALSE: the
\* extraction raises (a file polars cannot parse; a PDF, whose conversion
\* DataExtractor.convert_text_to_df does not exist).
IngestFile(file, downloads, b) ==
    IF file.name = ".emptyFolderPlaceholder" THEN [ ok |-> TRUE, bronze |-> b ]
    ELSE IF ~ downloads THEN [ ok |-> TRUE, bronze |-> b ]
    ELSE IF file.extension \in { ".csv", ".json" }
    THEN IF ~ file.parses THEN [ ok |-> FALSE, bronze |-> b ]
         ELSE IF file.rows = << >> THEN [ ok |-> TRUE, bronze |-> b ]
         ELSE [ ok |-> TRUE,
                bronze |-> [ b EXCEPT ![file.name] = [ exists |-> TRUE, rows |-> file.rows ] ] ]
    ELSE IF file.extension = ".pdf" THEN [ ok |-> FALSE, bronze |-> b ]
    ELSE [ ok |-> TRUE, bronze |-> b ]

\* The loop of _ingest_all_to_bronze from file i on; the download of file
\* `failed` fails (0: of none).  Every table is written in its own
\* transaction: the ones landed before an exception stay.
RECURSIVE IngestFiles(_, _, _, _)
IngestFiles(files, failed, i, b) ==
    IF i > Len(files) THEN [ ok |-> TRUE, bronze |-> b ]
    ELSE LET r == IngestFile(files[i], i # failed, b)
         IN  IF r.ok THEN IngestFiles(files, failed, i + 1, r.bronze) ELSE r

\* _ingest_all_to_bronze: when the listing fails nothing is landed and the
\* method returns
IngestAllToBronze ==
    /\ pc.step = "ingest"
    /\ \/ /\ bronze' = bronze
          /\ Proceed(<< Started("_ingest_all_to_bronze", 0), Returned("_ingest_all_to_bronze", 0) >>)
       \/ \E failed \in 0..Len(storage) :
            LET r == IngestFiles(storage, failed, 1, bronze)
            IN  /\ bronze' = r.bronze
                /\ IF r.ok
                   THEN Proceed(<< Started("_ingest_all_to_bronze", 0),
                                   Returned("_ingest_all_to_bronze", 0) >>)
                   ELSE Leave(<< Started("_ingest_all_to_bronze", 0),
                                 Raised("_ingest_all_to_bronze", 0) >>)
    /\ UNCHANGED <<api, storage, silver, dim_date, metric_entry, seq, collections, env,
                   clock, tx, sync, call>>

\* self._seed_calendar() is called
StepSeedCalendar ==
    /\ pc.step = "calendar" /\ call.cal = "none"
    /\ call' = [ call EXCEPT !.cal = "invoked" ]
    /\ log' = Append(log, Started("_seed_calendar", 0))
    /\ UNCHANGED <<api, pc, result, storage, bronze, silver, dim_date, metric_entry, seq,
                   collections, env, clock, tx, sync>>

\* _seed_calendar has returned or raised
CalendarSeeded ==
    /\ pc.step = "calendar" /\ call.cal \in { "skipped", "seeded", "raised" }
    /\ IF call.cal = "raised"
       THEN Leave(<< Raised("_seed_calendar", 0) >>)
       ELSE Proceed(<< Returned("_seed_calendar", 0) >>)
    /\ call' = [ call EXCEPT !.cal = "none" ]
    /\ UNCHANGED <<api, storage, bronze, silver, dim_date, metric_entry, seq, collections,
                   env, clock, tx, sync>>

\* Faulty variant: the read of a staging table that does not exist gives
\* an empty batch
DimensionReadMissingAsEmpty ==
    /\ pc.step = "dimensions" /\ pc.at = "read"
    /\ LET model  == DimTables[pc.dim]
           table  == bronze[BronzeTable(model)]
           enter  == IF pc.dim = 1 THEN << Started("_process_dimensions", 0) >> ELSE << >>
       IN       /\ clock' = clock + 1
                /\ tx' = TxOpen("dim", model, table.rows, silver[model], clock')
                /\ call' = [ call EXCEPT !.outcome = "running", !.batch = table.rows,
                                         !.before = silver[model], !.now = clock' ]
                /\ pc' = [ pc EXCEPT !.at = "upsert" ]
                /\ log' = log \o enter \o << Started("_upsert_polars_to_silver", pc.dim) >>
                /\ result' = result
    /\ UNCHANGED <<api, storage, bronze, silver, dim_date, metric_entry, seq, collections,
                   env, sync>>

\* _process_dimensions, steps 1 and 2 for the dimension at pc: the staging
\* table is read (the read of a table that does not exist raises) and
\* _upsert_polars_to_silver is called on it
DimensionRead ==
    /\ pc.step = "dimensions" /\ pc.at = "read"
    /\ LET model  == DimTables[pc.dim]
           table  == bronze[BronzeTable(model)]
           enter  == IF pc.dim = 1 THEN << Started("_process_dimensions", 0) >> ELSE << >>
       IN  IF ~ table.exists
           THEN /\ Leave(enter \o << Raised("_process_dimensions", 0) >>)
                /\ UNCHANGED <<clock, tx, call>>
           ELSE /\ clock' = clock + 1
                /\ tx' = TxOpen("dim", model, table.rows, silver[model], clock')
                /\ call' = [ call EXCEPT !.outcome = "running", !.batch = table.rows,
                                         !.before = silver[model], !.now = clock' ]
                /\ pc' = [ pc EXCEPT !.at = "upsert" ]
                /\ log' = log \o enter \o << Started("_upsert_polars_to_silver", pc.dim) >>
                /\ result' = result
    /\ UNCHANGED <<api, storage, bronze, silver, dim_date, metric_entry, seq, collections,
                   env, sync>>

\* Faulty variant: the staging batch itself is handed to the sync, with
\* no read of the silver table
DimensionUpsertedSyncsBatch ==
    /\ pc.step = "dimensions" /\ pc.at = "upsert"
    /\ call.outcome \in { "committed", "raised" }
    /\ call' = [ call EXCEPT !.outcome = "none" ]
    /\ IF call.outcome = "raised"
       THEN /\ Leave(<< Raised("_upsert_polars_to_silver", pc.dim),
                        Raised("_process_dimensions", 0) >>)
            /\ sync' = sync
       ELSE /\ sync' = [ state |-> "running", model |-> DimTables[pc.dim],
                         todo |-> call.batch ]
            /\ pc' = [ pc EXCEPT !.at = "sync" ]
            /\ log' = log \o << Returned("_upsert_polars_to_silver", pc.dim),
                                Started("_sync_to_typesense", pc.dim) >>
            /\ result' = result
    /\ UNCHANGED <<api, storage, bronze, silver, dim_date, metric_entry, seq, collections,
                   env, clock, tx>>

\* _process_dimensions, step 3: after the upsert has returned the silver
\* table is read back, in the order the database returns its rows, and
\* _sync_to_typesense is called on it; an upsert that raised leaves
\* _process_dimensions
DimensionUpserted ==
    /\ pc.step = "dimensions" /\ pc.at = "upsert"
    /\ call.outcome \in { "committed", "raised" }
    /\ call' = [ call EXCEPT !.outcome = "none" ]
    /\ IF call.outcome = "raised"
       THEN /\ Leave(<< Raised("_upsert_polars_to_silver", pc.dim),
                        Raised("_process_dimensions", 0) >>)
            /\ sync' = sync
       ELSE \E records \in Orders(silver[DimTables[pc.dim]]) :
              /\ sync' = [ state |-> "running", model |-> DimTables[pc.dim],
                           todo |-> records ]
              /\ pc' = [ pc EXCEPT !.at = "sync" ]
              /\ log' = log \o << Returned("_upsert_polars_to_silver", pc.dim),
                                  Started("_sync_to_typesense", pc.dim) >>
              /\ result' = result
    /\ UNCHANGED <<api, storage, bronze, silver, dim_date, metric_entry, seq, collections,
                   env, clock, tx>>

\* The sync of the dimension has returned: the loop of _process_dimensions
\* goes on with the next dimension, or _process_dimensions returns
DimensionSynced ==
    /\ pc.step = "dimensions" /\ pc.at = "sync"
    /\ sync.state \in { "returned", "raised" }
    /\ sync' = SyncIdle
    /\ IF sync.state = "raised"
       THEN Leave(<< Raised("_sync_to_typesense", pc.dim), Raised("_process_dimensions", 0) >>)
       ELSE IF pc.dim < Len(DimTables)
       THEN /\ pc' = [ pc EXCEPT !.dim = @ + 1, !.at = "read" ]
            /\ log' = Append(log, Returned("_sync_to_typesense", pc.dim))
            /\ result' = result
       ELSE Proceed(<< Returned("_sync_to_typesense", pc.dim),
                       Returned("_process_dimensions", 0) >>)
    /\ UNCHANGED <<api, storage, bronze, silver, dim_date, metric_entry, seq, collections,
                   env, clock, tx, call>>

\* self._process_metrics() is called: bronze.metric_entries is read (the
\* read of a table that does not exist raises) and the Session opens
MetricsRead ==
    /\ pc.step = "metrics" /\ call.outcome = "none" /\ tx.state = "closed"
    /\ LET table == bronze["metric_entries"]
       IN  IF ~ table.exists
           THEN /\ Leave(<< Started("_process_metrics", 0), Raised("_process_metrics", 0) >>)
                /\ UNCHANGED <<tx, call>>
           ELSE /\ tx' = TxOpen("fact", "metric_entry", table.rows, metric_entry, clock)
                /\ call' = [ call EXCEPT !.outcome = "running", !.batch = table.rows,
                                         !.before = metric_entry, !.now = clock ]
                /\ log' = Append(log, Started("_process_metrics", 0))
                /\ UNCHANGED <<pc, result>>
    /\ UNCHANGED <<api, storage, bronze, silver, dim_date, metric_entry, seq, collections,
                   env, clock, sync>>

\* _process_metrics has returned or raised
MetricsProcessed ==
    /\ pc.step = "metrics" /\ call.outcome \in { "committed", "raised" }
    /\ call' = [ call EXCEPT !.outcome = "none" ]
    /\ IF call.outcome = "raised"
       THEN Leave(<< Raised("_process_metrics", 0) >>)
       ELSE Proceed(<< Returned("_process_metrics", 0) >>)
    /\ UNCHANGED <<api, storage, bronze, silver, dim_date, metric_entry, seq, collections,
                   env, clock, tx, sync>>

\* _refresh_gold_views: the refresh of a view that PREPARE failed to create
\* raises, as does a database that refuses
RefreshGoldViews ==
    /\ pc.step = "views"
    /\ \E ok \in BOOLEAN :
         IF ok
         THEN Proceed(<< Started("_refresh_gold_views", 0), Returned("_refresh_gold_views", 0) >>)
         ELSE Leave(<< Started("_refresh_gold_views", 0), Raised("_refresh_gold_views", 0) >>)
    /\ UNCHANGED <<api, storage, bronze, silver, dim_date, metric_entry, seq, collections,
                   env, clock, tx, sync, call>>

-----------------------------------------------------------------------------
(* run_seed_process over the files of a bucket *)

CsvFile(name, rows) ==
    [ name |-> name, extension |-> ".csv", parses |-> TRUE, rows |-> rows ]

\* A row of each source file, as the file gives it
SourceRow(name) ==
    CASE name = "cost_centers" ->
           [ center_code |-> << "c", "c", "-", "1", "0", "0", "1" >>, department |-> << "i", "t" >>, budget_limit |-> 100 ]
      [] name = "environments" ->
           [ env_name |-> << "s", "t", "a", "g", "i", "n", "g" >>, tier |-> << "S", "t", "a", "n", "d", "a", "r", "d" >>,
             is_ephemeral |-> FALSE ]
      [] name = "hardware_profiles" ->
           [ profile_name |-> << "M", "5" >>, cpu_count |-> 2, ram_gb |-> 8 ]
      [] name = "providers" ->
           [ provider_name |-> << "a", "w", "s" >>, provider_type |-> << "p", "u", "b", "l", "i", "c", " ", "c", "l", "o", "u", "d" >>,
             support_contact |-> << "a", "@", "b", ".", "c", "o" >> ]
      [] name = "regions" ->
           [ region_code |-> << "U", "S", "-", "1" >>, display_name |-> << "e", "a", "s", "t" >>, continent |-> << "n", "a" >> ]
      [] name = "security_tiers" ->
           [ tier_name |-> << "p", "u", "b", "l", "i", "c" >>, encryption_required |-> TRUE,
             compliance_standard |-> << "i", "s", "o" >> ]
      [] name = "service_types" ->
           [ service_name |-> << "v", "m" >>, category |-> << "c", "o", "m", "p", "u", "t", "e" >>, is_managed |-> TRUE ]
      [] name = "statuses" ->
           [ status_name |-> << "u", "p" >>, is_billable |-> TRUE, description |-> << "o", "k" >> ]
      [] name = "teams" ->
           [ team_name |-> << "o", "p", "s" >>, department |-> << "i", "t" >>, lead_email |-> << "l", "@", "b", ".", "c", "o" >> ]

\* assets.csv: an asset that passes AssetDomain and one whose serial does not
SourceAsset(serial, name) ==
    [ serial_number |-> serial, resource_name |-> name, description |-> << "m", "a", "i", "n" >>,
      created_at |-> 19367, source_timestamp |-> NoTime, owner |-> "ops" ]

SourceAssets ==
    << SourceAsset(<< "R", "E", "S", "-", "A", "B", "1", "2", "-", "C", "D", "3", "4" >>, << " ", "d", "b", " ", "o", "n", "e", " " >>),
       SourceAsset(<< "R", "E", "S", "-", "1", "2", "3", "4" >>, << "d", "b", "-", "3" >>) >>

\* metric_entries.csv: a snapshot of each asset and its correction
SourceMetrics == << MetricRow(1, 1, 10), MetricRow(2, 1, 10), MetricRow(1, 1, 90) >>

\* The bucket folder: the placeholder, a file per dimension in no
\* particular order, the metrics and a file of another kind
Bucket ==
    << [ name |-> ".emptyFolderPlaceholder", extension |-> ".emptyFolderPlaceholder",
         parses |-> FALSE, rows |-> << >> ],
       CsvFile("assets", SourceAssets),
       CsvFile("cost_centers", << SourceRow("cost_centers") >>),
       CsvFile("environments", << SourceRow("environments") >>),
       CsvFile("hardware_profiles", << SourceRow("hardware_profiles") >>),
       CsvFile("metric_entries", SourceMetrics),
       [ name |-> "notes", extension |-> ".txt", parses |-> FALSE, rows |-> << >> ],
       CsvFile("providers", << SourceRow("providers") >>),
       CsvFile("regions", << SourceRow("regions") >>),
       CsvFile("security_tiers", << SourceRow("security_tiers") >>),
       CsvFile("service_types", << SourceRow("service_types") >>),
       CsvFile("statuses", << SourceRow("statuses") >>),
       CsvFile("teams", << SourceRow("teams") >>) >>

\* The buckets a run may find: the full one; an asset without name; a
\* metric of an asset that does not exist; a file polars cannot parse; a
\* PDF; an empty file; a bucket without the file of the statuses; the
\* metrics in a format the loop has no branch for
Buckets ==
    LET \* the bucket with file `name` replaced
        WithFile(files, name, file) ==
            [ i \in DOMAIN files |-> IF files[i].name = name THEN file ELSE files[i] ]
    IN
    { Bucket,
      WithFile(Bucket, "assets",
               CsvFile("assets", Append(SourceAssets, SourceAsset(<< " ", "r", "e", "s", "-", "z", "z", "9", "9", "-", "0", "0", "0", "1" >>, None)))),
      WithFile(Bucket, "metric_entries",
               CsvFile("metric_entries", Append(SourceMetrics, MetricRow(3, 1, 10)))),
      WithFile(Bucket, "regions",
               [ name |-> "regions", extension |-> ".json", parses |-> FALSE, rows |-> << >> ]),
      WithFile(Bucket, "providers",
               [ name |-> "providers", extension |-> ".pdf", parses |-> TRUE, rows |-> << >> ]),
      WithFile(Bucket, "teams", CsvFile("teams", << >>)),
      SelectSeq(Bucket, LAMBDA file : file.name # "statuses"),
      WithFile(Bucket, "metric_entries",
               [ name |-> "metric_entries", extension |-> ".xlsx", parses |-> FALSE,
                 rows |-> SourceMetrics ]) }

\* What an earlier run left: in the staging area the first row of each of
\* its files, exported with the action written out; in the warehouse its
\* dimension rows, a calendar and a fact; in the search engine documents
Leftover ==
    [ bronze |-> [ t \in DOMAIN NoBronze |->
                     IF \E i \in DOMAIN Bucket : Bucket[i].name = t /\ Bucket[i].rows # << >>
                     THEN LET file == CHOOSE file \in Range(Bucket) : file.name = t
                          IN  [ exists |-> TRUE, rows |-> << WithAction(file.rows[1], UPSERT) >> ]
                     ELSE NoBronze[t] ],
      silver |-> LoadedSilver,
      dim_date |-> { Calendar(1, CalendarStartYear, CalendarEndYear) },
      metric_entry |-> { StoredMetric(1, 2, 1, 10) },
      collections |-> [ NoCollections EXCEPT !["AssetDomain"] =
                          [ exists |-> TRUE, docs |-> StaleDocs ] ] ]

InitLeftover ==
    /\ bronze = Leftover.bronze
    /\ silver = Leftover.silver
    /\ dim_date = Leftover.dim_date
    /\ metric_entry = Leftover.metric_entry
    /\ seq = [ m \in Range(DimTables) \cup { "metric_entry", "dim_date" } |->
                 IF m = "metric_entry" THEN Cardinality(Leftover.metric_entry)
                 ELSE IF m = "dim_date" THEN CalendarDays(Calendar(1, CalendarStartYear, CalendarEndYear))
                 ELSE Cardinality(Leftover.silver[m]) ]
    /\ collections = Leftover.collections

Init ==
    /\ storage \in Buckets
    /\ clock = 10
    /\ tx = TxClosed
    /\ sync = SyncIdle
    /\ pc = Idle /\ result = "none" /\ log = << >>
    /\ call = NoCall
    /\ api = NoRequest
    /\ env \in [ search : { "up", "down" }, utc_offset : { 0 } ]
    /\ \/ InitWarehouse /\ bronze = NoBronze /\ collections = NoCollections
       \/ InitLeftover

Next ==
    \/ seed_database \/ StartRun \/ SeedResponse
    \/ CleanupDatabase \/ CleanupTypesense \/ PrepareDatabaseEnvironment
    \/ IngestAllToBronze
    \/ StepSeedCalendar \/ SeedCalendarCheck \/ SeedCalendarWrite \/ CalendarSeeded
    \/ DimensionRead \/ UpsertRow \/ UpsertCommit \/ DimensionUpserted
    \/ SyncRecord \/ SyncReturn \/ DimensionSynced
    \/ MetricsRead \/ CdcRow \/ CdcCommit \/ MetricsProcessed
    \/ ReturnWrite
    \/ RefreshGoldViews
    \/ SearchOutage \/ SearchRestored

Spec == Init /\ [][Next]_vars

-----------------------------------------------------------------------------
(* _upsert_polars_to_silver called by two runs at once *)

\* The calls of _upsert_polars_to_silver the two runs make together
MaxUpserts == 3

\* Here tx maps each run to its Session.  A run is at the step
\* "self._upsert_polars_to_silver(df, DimAsset, "serial_number")": it reads
\* now, then opens its Session.  A batch holds the two assets of the source
\* file in some order, or one of them, or an asset without name.
ConcurrentCall(r) ==
    LET rows == Range(SourceAssets)
                  \cup { SourceAsset(SourceAssets[1].serial_number, None) }
    IN  /\ tx[r].state = "closed" /\ clock < 10 + MaxUpserts
        /\ \E batch \in { << a >> : a \in rows }
                         \cup { << a, b >> : a, b \in Range(SourceAssets) } :
              /\ clock' = clock + 1
              /\ tx' = [ tx EXCEPT ![r] = TxOpen("dim", "dim_asset", batch, {}, clock') ]
        /\ UNCHANGED <<api, pc, result, log, storage, env, sync, bronze, silver, dim_date,
                       metric_entry, seq, collections, call>>

\* The business keys a Session has written and not yet committed: the
\* database holds the lock of each of these rows until the Session ends
LockedKeys(r) ==
    IF tx[r].state = "open" THEN { t[UniqueCol(tx[r].model)] : t \in tx[r].working }
    ELSE {}

\* The run's next statement waits for a row the other run has locked
Waits(r) ==
    /\ tx[r].state = "open" /\ tx[r].todo # << >>
    /\ \E o \in DOMAIN tx \ {r} :
         Head(tx[r].todo)[UniqueCol(tx[r].model)] \in LockedKeys(o)

\* session.exec(stmt) of run r: INSERT .. ON CONFLICT DO UPDATE on the rows
\* committed so far and the run's own; it waits while the other run holds
\* the row.  A statement that raises leaves the with-block: rollback.
ConcurrentUpsertRow(r) ==
    /\ tx[r].state = "open" /\ tx[r].todo # << >> /\ ~ Waits(r)
    /\ LET m    == tx[r].model
           u    == UniqueCol(m)
           vd   == ValidData(Head(tx[r].todo), m, tx[r].now)
           seen == { t \in silver[m] : t[u] \notin LockedKeys(r) } \cup tx[r].working
           s    == UpsertStatement(seen, seq[m], vd, m)
       IN  /\ seq' = [ seq EXCEPT ![m] = s.seq ]
           /\ tx' = [ tx EXCEPT ![r] =
                        IF s.ok
                        THEN [ @ EXCEPT !.todo = Tail(@),
                                        !.working = { t \in s.table :
                                                        t[u] \in LockedKeys(r) \cup { vd[u] } } ]
                        ELSE TxClosed ]
    /\ UNCHANGED <<api, pc, result, log, storage, env, sync, bronze, silver, dim_date,
                   metric_entry, collections, clock, call>>

\* Each run waits for a row of the other: the database ends the statement
\* of one of them with a deadlock error, which leaves its with-block
ConcurrentDeadlock(r) ==
    /\ \A o \in DOMAIN tx : Waits(o)
    /\ tx' = [ tx EXCEPT ![r] = TxClosed ]
    /\ UNCHANGED <<api, pc, result, log, storage, env, sync, bronze, silver, dim_date,
                   metric_entry, seq, collections, clock, call>>

\* session.commit() of run r: its rows replace the committed ones of their
\* keys, and the method returns
ConcurrentCommit(r) ==
    /\ tx[r].state = "open" /\ tx[r].todo = << >>
    /\ LET m == tx[r].model
           u == UniqueCol(m)
       IN  silver' = [ silver EXCEPT ![m] =
                         { t \in @ : t[u] \notin LockedKeys(r) } \cup tx[r].working ]
    /\ tx' = [ tx EXCEPT ![r] = TxClosed ]
    /\ UNCHANGED <<api, pc, result, log, storage, env, sync, bronze, dim_date,
                   metric_entry, seq, collections, clock, call>>

\* Two runs, none in the method; the tables exist and are empty
InitConcurrent ==
    /\ storage = << >> /\ bronze = NoBronze /\ clock = 10
    /\ tx = [ r \in { 1, 2 } |-> TxClosed ]
    /\ sync = SyncIdle /\ pc = Idle /\ result = "none" /\ log = << >>
    /\ call = NoCall /\ api = NoRequest
    /\ InitSearch /\ InitWarehouse

NextConcurrent ==
    \/ \E r \in DOMAIN tx : ConcurrentCall(r)
    \/ \E r \in DOMAIN tx : ConcurrentUpsertRow(r)
    \/ \E r \in DOMAIN tx : ConcurrentDeadlock(r)
    \/ \E r \in DOMAIN tx : ConcurrentCommit(r)

SpecConcurrent == InitConcurrent /\ [][NextConcurrent]_vars

-----------------------------------------------------------------------------
(* Asset CRUD: AssetService on silver.dim_asset *)

\* The writing requests served
MaxWrites == 2

\* select(DimAsset).where(DimAsset.id == id, col(DimAsset.is_active)): the
\* active row of this id, if there is one
get_dim_asset_or_404(table, id) == { t \in table : t.id = id /\ t.is_active }

\* The response of a handler that returns rows: _map_to_domain of each, a
\* ValidationError leaving the handler
Mapped(op, status, rows) ==
    IF \A t \in rows : DomainValidate("dim_asset", t).ok
    THEN [ op |-> op, status |-> status,
           body |-> { DomainValidate("dim_asset", t).obj : t \in rows } ]
    ELSE [ op |-> op, status |-> 500 ]

\* model_dump(exclude={"id", "source_timestamp", "updated_at"}) of the
\* request written over a row, with the metadata the handlers set
Written(row, data, now) ==
    [ c \in DOMAIN row |->
        IF c = "id" THEN row.id
        ELSE IF c = "updated_at" THEN now
        ELSE IF c = "source_timestamp"
             THEN IF data.source_timestamp # NoTime THEN data.source_timestamp
                  ELSE row.source_timestamp
        ELSE data[c] ]

\* create_asset(asset_in): 400 when the serial number is taken
create_asset(asset_in) ==
    LET table == silver["dim_asset"]
        now   == clock + 1
        id    == seq["dim_asset"] + 1
        new   == Written([ c \in ModelFields("dim_asset") |->
                             IF c = "id" THEN id ELSE now ], asset_in, now)
    IN  /\ api.op = "none" /\ clock < 10 + MaxWrites
        /\ clock' = now
        /\ IF \E t \in table : t.serial_number = asset_in.serial_number
           THEN /\ api' = [ op |-> "create_asset", status |-> 400 ]
                /\ UNCHANGED << silver, seq >>
           ELSE /\ silver' = [ silver EXCEPT !["dim_asset"] = table \cup { new } ]
                /\ seq' = [ seq EXCEPT !["dim_asset"] = id ]
                /\ api' = Mapped("create_asset", 201, { new })
        /\ UNCHANGED <<pc, result, log, storage, bronze, dim_date, metric_entry,
                       collections, env, tx, sync, call>>

\* create_assets_batch(data): 400 when a serial number is taken; the rows
\* are added in one transaction, which the unique index ends when two of
\* them share a serial number
create_assets_batch(data) ==
    LET table == silver["dim_asset"]
        now   == clock + 1
        first == seq["dim_asset"]
        new   == { Written([ c \in ModelFields("dim_asset") |->
                               IF c = "id" THEN first + i ELSE now ], data[i], now)
                   : i \in DOMAIN data }
    IN  /\ api.op = "none" /\ clock < 10 + MaxWrites
        /\ clock' = now
        /\ IF \E t \in table : \E i \in DOMAIN data : t.serial_number = data[i].serial_number
           THEN /\ api' = [ op |-> "create_assets_batch", status |-> 400 ]
                /\ UNCHANGED << silver, seq >>
           ELSE IF \E i, j \in DOMAIN data : i # j /\ data[i].serial_number = data[j].serial_number
           THEN /\ api' = [ op |-> "create_assets_batch", status |-> 500 ]
                /\ silver' = silver
                /\ seq' = [ seq EXCEPT !["dim_asset"] = first + Len(data) ]
           ELSE /\ silver' = [ silver EXCEPT !["dim_asset"] = table \cup new ]
                /\ seq' = [ seq EXCEPT !["dim_asset"] = first + Len(data) ]
                /\ api' = Mapped("create_assets_batch", 201, new)
        /\ UNCHANGED <<pc, result, log, storage, bronze, dim_date, metric_entry,
                       collections, env, tx, sync, call>>

\* get_all_assets(): the active rows (offset 0, limit 100: all of them)
get_all_assets ==
    /\ api.op = "none"
    /\ api' = Mapped("get_all_assets", 200, { t \in silver["dim_asset"] : t.is_active })
    /\ UNCHANGED <<pc, result, log, storage, bronze, silver, dim_date, metric_entry, seq,
                   collections, env, clock, tx, sync, call>>

\* get_asset(id)
get_asset(id) ==
    /\ api.op = "none"
    /\ api' = IF get_dim_asset_or_404(silver["dim_asset"], id) = {}
              THEN [ op |-> "get_asset", status |-> 404 ]
              ELSE Mapped("get_asset", 200, get_dim_asset_or_404(silver["dim_asset"], id))
    /\ UNCHANGED <<pc, result, log, storage, bronze, silver, dim_date, metric_entry, seq,
                   collections, env, clock, tx, sync, call>>

\* update_asset(id, data): 404 unless the row is active; the commit fails
\* when the new serial number is the one of another row
update_asset(id, data) ==
    LET table == silver["dim_asset"]
        now   == clock + 1
        found == get_dim_asset_or_404(table, id)
        new   == { Written(t, data, now) : t \in found }
    IN  /\ api.op = "none" /\ clock < 10 + MaxWrites
        /\ clock' = now
        /\ IF found = {}
           THEN api' = [ op |-> "update_asset", status |-> 404 ] /\ silver' = silver
           ELSE IF \E t \in table \ found : t.serial_number = data.serial_number
           THEN api' = [ op |-> "update_asset", status |-> 500 ] /\ silver' = silver
           ELSE /\ silver' = [ silver EXCEPT !["dim_asset"] = (table \ found) \cup new ]
                /\ api' = Mapped("update_asset", 200, new)
        /\ UNCHANGED <<pc, result, log, storage, bronze, dim_date, metric_entry, seq,
                       collections, env, tx, sync, call>>

\* update_assets_batch(data): the rows are found by serial number, active
\* or not; 404 when one is missing; a serial number given twice is written
\* twice
update_assets_batch(data) ==
    LET table == silver["dim_asset"]
        now   == clock + 1
        last(t) == CHOOSE i \in DOMAIN data :
                     /\ data[i].serial_number = t.serial_number
                     /\ \A j \in DOMAIN data :
                          data[j].serial_number = t.serial_number => j <= i
        found == { t \in table : \E i \in DOMAIN data : data[i].serial_number = t.serial_number }
        new   == { Written(t, data[last(t)], now) : t \in found }
    IN  /\ api.op = "none" /\ clock < 10 + MaxWrites
        /\ clock' = now
        /\ IF \E i \in DOMAIN data : \A t \in table : t.serial_number # data[i].serial_number
           THEN api' = [ op |-> "update_assets_batch", status |-> 404 ] /\ silver' = silver
           ELSE /\ silver' = [ silver EXCEPT !["dim_asset"] = (table \ found) \cup new ]
                /\ api' = Mapped("update_assets_batch", 200, new)
        /\ UNCHANGED <<pc, result, log, storage, bronze, dim_date, metric_entry, seq,
                       collections, env, tx, sync, call>>

\* Faulty variant: the row is deleted from the table
delete_asset_hard(id) ==
    LET table == silver["dim_asset"]
        found == get_dim_asset_or_404(table, id)
    IN  /\ api.op = "none" /\ clock < 10 + MaxWrites
        /\ clock' = clock + 1
        /\ IF found = {}
           THEN api' = [ op |-> "delete_asset", status |-> 404, id |-> id ] /\ silver' = silver
           ELSE /\ silver' = [ silver EXCEPT !["dim_asset"] = table \ found ]
                /\ api' = [ op |-> "delete_asset", status |-> 204, id |-> id ]
        /\ UNCHANGED <<pc, result, log, storage, bronze, dim_date, metric_entry, seq,
                       collections, env, tx, sync, call>>

\* delete_asset(id): 404 unless the row is active; is_active is set to False
delete_asset(id) ==
    LET table == silver["dim_asset"]
        now   == clock + 1
        found == get_dim_asset_or_404(table, id)
        new   == { [ t EXCEPT !.is_active = FALSE, !.updated_at = now ] : t \in found }
    IN  /\ api.op = "none" /\ clock < 10 + MaxWrites
        /\ clock' = now
        /\ IF found = {}
           THEN api' = [ op |-> "delete_asset", status |-> 404, id |-> id ] /\ silver' = silver
           ELSE /\ silver' = [ silver EXCEPT !["dim_asset"] = (table \ found) \cup new ]
                /\ api' = [ op |-> "delete_asset", status |-> 204, id |-> id ]
        /\ UNCHANGED <<pc, result, log, storage, bronze, dim_date, metric_entry, seq,
                       collections, env, tx, sync, call>>

\* delete_assets_batch(ids): nothing to do for no id; 404 unless the rows
\* found, active or not, are as many as the ids given
delete_assets_batch(ids) ==
    LET table == silver["dim_asset"]
        now   == clock + 1
        items == { t \in table : t.id \in Range(ids) }
        new   == { [ t EXCEPT !.is_active = FALSE, !.updated_at = now ] : t \in items }
    IN  /\ api.op = "none" /\ clock < 10 + MaxWrites
        /\ clock' = now
        /\ IF ids # << >> /\ Cardinality(items) # Len(ids)
           THEN api' = [ op |-> "delete_assets_batch", status |-> 404, ids |-> ids ]
                /\ silver' = silver
           ELSE /\ silver' = [ silver EXCEPT !["dim_asset"] = (table \ items) \cup new ]
                /\ api' = [ op |-> "delete_assets_batch", status |-> 204, ids |-> ids ]
        /\ UNCHANGED <<pc, result, log, storage, bronze, dim_date, metric_entry, seq,
                       collections, env, tx, sync, call>>

\* The response is sent: the next request may come
Responded ==
    /\ api.op # "none"
    /\ api' = NoRequest
    /\ UNCHANGED <<pc, result, log, storage, bronze, silver, dim_date, metric_entry, seq,
                   collections, env, clock, tx, sync, call>>

\* The table is empty or holds what a run stored: two assets that pass
\* AssetDomain and one, of id 3, that does not
InitCrud ==
    /\ InitIdle /\ InitSearch
    /\ dim_date = {} /\ metric_entry = {}
    /\ \E rows \in { {}, { t \in StoredAssets : t.id \in 1..3 } } :
         /\ silver = [ EmptySilver EXCEPT !["dim_asset"] = rows ]
         /\ seq = [ m \in Range(DimTables) \cup { "metric_entry", "dim_date" } |->
                      IF m = "dim_asset" THEN Cardinality(rows) ELSE 0 ]

\* The requests: assets "RES-AB12-CD34" and "RES-ZZ99-0001", active or
\* not, alone or two in a batch; the ids 1 to 3
NextCrud ==
    LET AssetsIn ==
            [ serial_number : { << "R", "E", "S", "-", "A", "B", "1", "2", "-", "C", "D", "3", "4" >>,
                                << "R", "E", "S", "-", "Z", "Z", "9", "9", "-", "0", "0", "0", "1" >> },
              resource_name : { << "D", "b", " ", "T", "w", "o" >> },
              description : { << "m", "a", "i", "n" >> },
              created_at : { 19367 },
              is_active : BOOLEAN,
              source_timestamp : { NoTime } ]
        BatchesIn == { << a >> : a \in AssetsIn } \cup { << a, b >> : a, b \in AssetsIn }
        IdsIn == { << >>, << 1 >>, << 3 >>, << 1, 2 >>, << 1, 1 >>, << 2, 9 >> }
    IN  \/ \E asset_in \in AssetsIn : create_asset(asset_in)
        \/ \E data \in BatchesIn : create_assets_batch(data)
        \/ get_all_assets
        \/ \E id \in 1..3 : get_asset(id)
        \/ \E id \in 1..3, data \in AssetsIn : update_asset(id, data)
        \/ \E data \in BatchesIn : update_assets_batch(data)
        \/ \E id \in 1..3 : delete_asset(id)
        \/ \E ids \in IdsIn : delete_assets_batch(ids)
        \/ Responded

SpecCrud == InitCrud /\ [][NextCrud]_vars

-----------------------------------------------------------------------------
(* _upsert_polars_to_silver on a table with soft-deleted assets *)

\* silver.dim_asset holds the assets of ids 1 to 3 a first upsert has
\* stored
InitRetire ==
    /\ storage = << >> /\ bronze = NoBronze
    /\ clock = 10 /\ tx = TxClosed /\ sync = SyncIdle
    /\ pc = Idle /\ result = "none" /\ log = << >>
    /\ call = [ NoCall EXCEPT !.phase = "first", !.outcome = "committed" ]
    /\ api = NoRequest
    /\ InitSearch
    /\ dim_date = {} /\ metric_entry = {}
    /\ silver = [ EmptySilver EXCEPT !["dim_asset"] = { t \in StoredAssets : t.id \in 1..3 } ]
    /\ seq = [ m \in Range(DimTables) \cup { "metric_entry", "dim_date" } |->
                 IF m = "dim_asset" THEN 3 ELSE 0 ]

\* Assets are retired with DELETE /v1/assets/{id} while no upsert runs, each
\* request answered before _upsert_polars_to_silver is called once more
NextRetire ==
    \/ \E id \in 1..3 : tx.state = "closed" /\ delete_asset(id)
    \/ Responded
    \/ api = NoRequest /\ CallUpsert
    \/ UpsertRow \/ UpsertCommit \/ ReturnWrite

SpecRetire == InitRetire /\ [][NextRetire]_vars

-----------------------------------------------------------------------------
(* Global Fan-out Search: SearchService.global_search *)

\* The declared order of the collections
collections_to_search ==
    << "AssetDomain", "CostCenterDomain", "EnvironmentDomain",
       "HardwareProfileDomain", "ProviderDomain", "RegionDomain",
       "SecurityTierDomain", "ServiceTypeDomain", "StatusDomain", "TeamDomain" >>

\* Collection -> the fields to search, as the comma-separated string lists them
FIELD_MAPPING(col) ==
    CASE col = "AssetDomain"           -> << "resource_name", "description", "serial_number" >>
      [] col = "CostCenterDomain"      -> << "center_code", "description" >>
      [] col = "EnvironmentDomain"     -> << "env_name", "tier" >>
      [] col = "HardwareProfileDomain" -> << "profile_name", "processor_type" >>
      [] col = "ProviderDomain"        -> << "provider_name" >>
      [] col = "RegionDomain"          -> << "region_code", "region_name" >>
      [] col = "SecurityTierDomain"    -> << "tier_name" >>
      [] col = "ServiceTypeDomain"     -> << "service_name" >>
      [] col = "StatusDomain"          -> << "status_name" >>
      [] col = "TeamDomain"            -> << "team_name", "lead_name" >>

\* get_schema(collection_name): field name -> type; every schema ends with
\* the metadata fields.  schemas.get(collection_name, [{"name": ".*",
\* "type": "auto"}]): a name without schema gets the catch-all field
get_schema(collection_name) ==
    LET metadata ==
            [ is_active |-> "bool", source_timestamp |-> "int64", updated_at |-> "int64" ]
        schemas ==
            [ AssetDomain |->
                  [ id |-> "string", resource_name |-> "string", serial_number |-> "string", description |-> "string", created_at |-> "int64" ] @@ metadata,
              CostCenterDomain |->
                  [ id |-> "string", center_code |-> "string", department |-> "string", budget_limit |-> "float" ] @@ metadata,
              EnvironmentDomain |->
                  [ id |-> "string", env_name |-> "string", tier |-> "string", is_ephemeral |-> "bool" ] @@ metadata,
              HardwareProfileDomain |->
                  [ id |-> "string", profile_name |-> "string", cpu_count |-> "int32", ram_gb |-> "int32" ] @@ metadata,
              ProviderDomain |->
                  [ id |-> "string", provider_name |-> "string", provider_type |-> "string", support_contact |-> "string" ] @@ metadata,
              RegionDomain |->
                  [ id |-> "string", region_code |-> "string", display_name |-> "string", continent |-> "string" ] @@ metadata,
              SecurityTierDomain |->
                  [ id |-> "string", tier_name |-> "string", encryption_required |-> "bool", compliance_standard |-> "string" ] @@ metadata,
              ServiceTypeDomain |->
                  [ id |-> "string", service_name |-> "string", category |-> "string", is_managed |-> "bool" ] @@ metadata,
              StatusDomain |->
                  [ id |-> "string", status_name |-> "string", is_billable |-> "bool", description |-> "string" ] @@ metadata,
              TeamDomain |->
                  [ id |-> "string", team_name |-> "string", department |-> "string", lead_email |-> "string" ] @@ metadata ]
    IN  IF collection_name \in DOMAIN schemas THEN schemas[collection_name]
        ELSE [ f \in { ".*" } |-> "auto" ]

\* The documents of a collection the query matches in one of the fields.
\* The engine's text match with prefix search: the query, whatever its
\* case, begins a word of the text
DocsMatching(docs, q, fields) ==
    LET MatchesText(text) ==
            \E i \in DOMAIN text :
                /\ i = 1 \/ IsSpace(text[i - 1])
                /\ i + Len(q) - 1 <= Len(text)
                /\ Lower(SubSeq(text, i, i + Len(q) - 1)) = Lower(q)
    IN  { doc \in docs : \E f \in fields \cap DOMAIN doc : MatchesText(doc[f]) }

\* The engine's answer to one search of a multi_search request: an error
\* object when the collection does not exist or query_by names a field the
\* collection's schema does not declare as a string, else the hits in the
\* order of their rank
SearchAnswer(colls, search, ranking) ==
    LET col    == search.collection
        schema == get_schema(col)
        found  == DocsMatching(colls[col].docs, search.q, Range(search.query_by))
        ranked == SelectSeq(ranking, LAMBDA id : \E doc \in found : doc.id = id)
    IN  IF ~ colls[col].exists
        THEN [ code |-> 404, error |-> "Not found" ]
        ELSE IF \E f \in Range(search.query_by) :
                   f \notin DOMAIN schema \/ schema[f] # "string"
        THEN [ code |-> 404, error |-> "Could not find a field" ]
        ELSE [ hits |-> [ k \in DOMAIN ranked |->
                            [ document |-> CHOOSE doc \in found : doc.id = ranked[k] ] ] ]

\* Faulty variant: result['hits'], a KeyError on an answer that has none
ResultHitsStrict(answer) ==
    IF "hits" \in DOMAIN answer THEN [ ok |-> TRUE, hits |-> answer.hits ]
    ELSE [ ok |-> FALSE, hits |-> << >> ]

\* result.get('hits', [])
ResultHits(answer) ==
    [ ok |-> TRUE, hits |-> IF "hits" \in DOMAIN answer THEN answer.hits ELSE << >> ]

\* The loop over multi_results['results'] from position i on: final_hits
RECURSIVE FinalHits(_, _)
FinalHits(results, i) ==
    IF i > Len(results) THEN << >>
    ELSE LET source_collection == collections_to_search[i]
             hits == ResultHits(results[i]).hits
             \* doc['domain_entity'] = source_collection
             TagHit(hit) ==
                 [ f \in DOMAIN hit.document \cup { "domain_entity" } |->
                     IF f = "domain_entity" THEN source_collection ELSE hit.document[f] ]
         IN  [ k \in DOMAIN hits |-> TagHit(hits[k]) ]
             \o FinalHits(results, i + 1)

\* global_search(query_text): ok = FALSE when an exception leaves it
global_search(colls, query_text, reachable, ranking) ==
    IF ~ reachable THEN [ ok |-> FALSE, hits |-> << >> ]
    ELSE LET \* one search per collection, in the declared order
             search_requests ==
                 [ i \in DOMAIN collections_to_search |->
                     [ collection |-> collections_to_search[i], q |-> query_text,
                       query_by |-> FIELD_MAPPING(collections_to_search[i]),
                       prefix |-> TRUE, typo_tokens_threshold |-> 2 ] ]
             \* client.multi_search.perform(search_requests, {}): one answer
             \* per search, in the order of the searches
             multi_results ==
                 [ results |-> [ i \in DOMAIN search_requests |->
                                   SearchAnswer(colls, search_requests[i], ranking) ] ]
         IN  IF \E i \in DOMAIN multi_results.results :
                    ~ ResultHits(multi_results.results[i]).ok
             THEN [ ok |-> FALSE, hits |-> << >> ]
             ELSE [ ok |-> TRUE, hits |-> FinalHits(multi_results.results, 1) ]

\* GET /v1/search/global?q=...: the request arrives
GlobalSearchRequest(q, credentials) ==
    /\ api.op = "none"
    /\ api' = [ op |-> "global_search", q |-> q, credentials |-> credentials,
                status |-> 0 ]
    /\ UNCHANGED <<pc, result, log, storage, bronze, silver, dim_date, metric_entry,
                   seq, collections, env, clock, tx, sync, call>>

\* The route: 401 without the admin's credentials, else the list
\* global_search returns; an exception that leaves the route is answered 500
GlobalSearchRoute ==
    /\ api.op = "global_search" /\ api.status = 0
    /\ IF ~ authenticate(api.credentials)
       THEN api' = [ api EXCEPT !.status = 401 ]
       ELSE \E ranking \in Orders(UNION { { doc.id : doc \in collections[c].docs }
                                            : c \in DOMAIN collections }) :
              LET r == global_search(collections, api.q, env.search # "down", ranking)
              IN  api' = IF r.ok
                         THEN [ op |-> api.op, q |-> api.q, credentials |-> api.credentials,
                                status |-> 200, body |-> r.hits ]
                         ELSE [ api EXCEPT !.status = 500 ]
    /\ UNCHANGED <<pc, result, log, storage, bronze, silver, dim_date, metric_entry,
                   seq, collections, env, clock, tx, sync, call>>

-----------------------------------------------------------------------------
(* global_search over the collections a run has filled *)

\* The documents _sync_to_typesense writes for the rows of a dimension: of
\* dim_asset two stored rows, of another the row of id 1 the pipeline stores
\* for its source row
SyncedDocs(model) ==
    LET row == SourceRow(BronzeTable(model))
        SyncedRow ==
            [ c \in ModelFields(model) |->
                IF c = "id" THEN 1
                ELSE IF c = "is_active" THEN TRUE
                ELSE IF c \in { "source_timestamp", "updated_at" } THEN 11
                ELSE row[c] ]
        rows == IF model = "dim_asset"
                THEN { r \in StoredAssets : r.id \in { 1, 2 } }
                ELSE { SyncedRow }
    IN  { FormatDoc(DomainValidate(model, r).obj, 0) : r \in rows }

\* Each collection is missing or holds the documents of its dimension
InitSearchable ==
    /\ InitIdle /\ InitWarehouse
    /\ env \in [ search : { "up", "down" }, utc_offset : { 0 } ]
    /\ \E present \in SUBSET Range(DimTables) :
         collections =
            [ c \in CollectionNames |->
                LET m == CHOOSE t \in Range(DimTables) : CollectionName(t) = c
                IN  IF m \in present
                    THEN [ exists |-> TRUE, docs |-> SyncedDocs(m) ]
                    ELSE [ exists |-> FALSE, docs |-> {} ] ]

\* The queries asked: "db", "o", "st", "u", "zz"
NextSearch ==
    \/ \E q \in { << "d", "b" >>, << "o" >>, << "s", "t" >>, << "u" >>, << "z", "z" >> },
          credentials \in Credentials : GlobalSearchRequest(q, credentials)
    \/ GlobalSearchRoute

SpecSearch == InitSearchable /\ [][NextSearch]_vars

-----------------------------------------------------------------------------
(* Properties of the dimension upsert *)

AssetKeys(batch) == { batch[i].serial_number : i \in DOMAIN batch }

\* The last row of the batch that carries business key k
LastAssetRow(batch, k) ==
    batch[ CHOOSE i \in DOMAIN batch :
             /\ batch[i].serial_number = k
             /\ \A j \in DOMAIN batch : j > i => batch[j].serial_number # k ]

AssetsOf(table, k) == { t \in table : t.serial_number = k }

\* C3: after a second application of _upsert_polars_to_silver has committed,
\* the table holds exactly one row per business key of the batch; that row
\* keeps its identity, its updated_at is strictly later than the one the
\* first application left, and every declared field holds the value of the
\* (last row of the) second batch, source_timestamp falling back to the
\* stamp of the run when the row has none.
C3_UpsertTwice ==
    (call.phase = "second" /\ call.outcome = "committed") =>
        /\ \A t1, t2 \in silver["dim_asset"] :
               t1.serial_number = t2.serial_number => t1 = t2
        /\ \A k \in AssetKeys(call.batch) :
             LET last == LastAssetRow(call.batch, k)
             IN  /\ Cardinality(AssetsOf(silver["dim_asset"], k)) = 1
                 /\ \A t \in AssetsOf(silver["dim_asset"], k) :
                      /\ t.resource_name = last.resource_name
                      /\ t.description = last.description
                      /\ t.created_at = last.created_at
                      /\ t.is_active = TRUE
                      /\ t.updated_at = call.now
                      /\ t.source_timestamp =
                           IF last.source_timestamp # NoTime
                           THEN last.source_timestamp ELSE call.now
                      /\ \A p \in AssetsOf(call.before, k) :
                           p.updated_at < t.updated_at /\ p.id = t.id

\* C3 witness: the second application committed a two-key batch whose values
\* the first application had already written (the same batch, twice).
C3_SameBatchTwice ==
    /\ call.phase = "second" /\ call.outcome = "committed"
    /\ Cardinality(AssetKeys(call.batch)) = 2
    /\ { t.serial_number : t \in call.before } = AssetKeys(call.batch)
    /\ \A k \in AssetKeys(call.batch) : \A p \in AssetsOf(call.before, k) :
         /\ p.resource_name = LastAssetRow(call.batch, k).resource_name
         /\ p.updated_at < call.now

\* A row of bronze.assets whose write raises: resource_name is NOT NULL
FailingAssetRow(row) == row.resource_name = None

\* C4: a dimension batch is all-or-nothing.  While the batch is being
\* written and after a row's write has raised, the table is the one the
\* call found; a batch holding a failing row never commits and the call
\* ends raised.
C4_UpsertAtomic ==
    /\ (call.outcome = "running" /\ tx.state # "committed")
          => silver["dim_asset"] = call.before
    /\ call.outcome = "raised" => silver["dim_asset"] = call.before
    /\ (call.outcome \in { "committed", "raised" }
        /\ \E i \in DOMAIN call.batch : FailingAssetRow(call.batch[i]))
          => call.outcome = "raised"

\* C4 witness: the call raised on the second row of a batch whose first row
\* had been written, and the first row's key is not in the table.
C4_RaisedAfterWrittenRow ==
    /\ call.outcome = "raised"
    /\ Len(call.batch) = 2
    /\ ~ FailingAssetRow(call.batch[1])
    /\ FailingAssetRow(call.batch[2])
    /\ AssetsOf(call.before, call.batch[1].serial_number) = {}
    /\ AssetsOf(silver["dim_asset"], call.batch[1].serial_number) = {}

-----------------------------------------------------------------------------
(* Properties of the fact CDC processor and of the calendar seed *)

MetricKey(row) == << row.asset_id, row.date_id >>

BatchKeys(batch) == { MetricKey(batch[i]) : i \in DOMAIN batch }

FactsOf(table, k) == { t \in table : MetricKey(t) = k }

\* The last row of the batch that carries key k
LastMetricRow(batch, k) ==
    batch[ CHOOSE i \in DOMAIN batch :
             /\ MetricKey(batch[i]) = k
             /\ \A j \in DOMAIN batch : j > i => MetricKey(batch[j]) # k ]

\* The spellings of "delete" in any mix of cases
DeleteSpellings ==
    { [ i \in 1..6 |-> IF i \in S THEN DELETE[i]
                       ELSE << "d", "e", "l", "e", "t", "e" >>[i] ]
      : S \in SUBSET (1..6) }

IsDeleteRow(row) == "action" \in DOMAIN row /\ row["action"] \in DeleteSpellings

SameMeasures(t, row) ==
    /\ t.cpu_usage_avg = row.cpu_usage_avg
    /\ t.memory_usage_avg = row.memory_usage_avg
    /\ t.hourly_cost = row.hourly_cost
    /\ t.uptime_seconds = row.uptime_seconds

\* C5: once a CDC batch has committed the fact table holds at most one row
\* per (asset_id, date_id), and a key whose last row in the batch is an
\* upsert has exactly one row, with the measures of that last row.
C5_CdcCorrection ==
    /\ \A t1, t2 \in metric_entry : MetricKey(t1) = MetricKey(t2) => t1 = t2
    /\ call.outcome = "committed" =>
         \A k \in BatchKeys(call.batch) :
            LET last == LastMetricRow(call.batch, k)
            IN  ~ IsDeleteRow(last) =>
                  /\ Cardinality(FactsOf(metric_entry, k)) = 1
                  /\ \A t \in FactsOf(metric_entry, k) : SameMeasures(t, last)

\* C5 witness: (E, D) was upserted twice in one batch with different
\* measures, over a stored row of (E, D); one row holds the second measures.
C5_SecondMeasuresStored ==
    /\ call.outcome = "committed"
    /\ Len(call.batch) = 2
    /\ MetricKey(call.batch[1]) = MetricKey(call.batch[2])
    /\ ~ IsDeleteRow(call.batch[1]) /\ ~ IsDeleteRow(call.batch[2])
    /\ call.batch[1].cpu_usage_avg # call.batch[2].cpu_usage_avg
    /\ FactsOf(call.before, MetricKey(call.batch[1])) # {}
    /\ \E t \in metric_entry :
         MetricKey(t) = MetricKey(call.batch[2])
         /\ t.cpu_usage_avg = call.batch[2].cpu_usage_avg

\* The loop of _process_metrics is at a row
AtMetricRow == tx.state = "open" /\ tx.kind = "fact" /\ tx.todo # << >>

\* C6: a DELETE row never raises; it removes the row of its key when there
\* is one (at most one) and nothing else, and leaves the table as it is
\* when there is none.
C6_DeleteIdempotent ==
    [][ (AtMetricRow /\ IsDeleteRow(Head(tx.todo))) =>
          LET hit == FactsOf(tx.working, MetricKey(Head(tx.todo)))
          IN  /\ tx'.state = "open"
              /\ Cardinality(hit) <= 1
              /\ tx'.working = tx.working \ hit
              /\ hit = {} => tx'.working = tx.working ]_vars

\* C6 witness: a committed batch deleted (1, 1) twice: the first DELETE
\* found the row, the second found none; the row of (1, 2) is still there.
C6_DeletedOnceThenAbsent ==
    /\ call.outcome = "committed"
    /\ Len(call.batch) = 2
    /\ \A i \in 1..2 : IsDeleteRow(call.batch[i]) /\ MetricKey(call.batch[i]) = <<1, 1>>
    /\ FactsOf(call.before, <<1, 1>>) # {}
    /\ FactsOf(call.before, <<1, 2>>) # {}
    /\ metric_entry = call.before \ FactsOf(call.before, <<1, 1>>)

\* A row of bronze.metric_entries whose write raises: asset 3 does not exist
MalformedMetricRow(row) == ~ IsDeleteRow(row) /\ row.asset_id = 3

\* C7: a fact CDC batch is all-or-nothing.  While the batch is processed
\* and after a row has raised, the fact table is the one the call found; a
\* batch holding a malformed row ends raised.
C7_CdcAtomic ==
    /\ (call.outcome = "running" /\ tx.state # "committed")
          => metric_entry = call.before
    /\ call.outcome = "raised" => metric_entry = call.before
    /\ (call.outcome \in { "committed", "raised" }
        /\ \E i \in DOMAIN call.batch : MalformedMetricRow(call.batch[i]))
          => call.outcome = "raised"

\* C7 witness: the batch deleted a stored row, then hit a malformed row;
\* the deleted row is in the table.
C7_RaisedAfterDelete ==
    /\ call.outcome = "raised"
    /\ Len(call.batch) = 2
    /\ IsDeleteRow(call.batch[1])
    /\ MalformedMetricRow(call.batch[2])
    /\ FactsOf(call.before, MetricKey(call.batch[1])) # {}
    /\ FactsOf(metric_entry, MetricKey(call.batch[1])) # {}

\* C8: a row deletes exactly when its action is DELETE in some mix of
\* cases; any other row, one without action included, is upserted; the
\* stored rows have the columns of MetricEntry, never an action column.
C8_ActionDefault ==
    /\ [](\A t \in metric_entry : DOMAIN t = MetricFields)
    /\ [][ AtMetricRow =>
             LET row == Head(tx.todo)
                 now == FactsOf(tx'.working, MetricKey(row))
             IN  tx'.state = "open" =>
                   /\ \A t \in tx'.working : DOMAIN t = MetricFields
                   /\ IF IsDeleteRow(row) THEN now = {}
                      ELSE \E t \in now : SameMeasures(t, row) ]_vars

\* C8 witness: a row without action replaced the measures of (1, 1) and a
\* row with action "Delete" removed (1, 2).
C8_DefaultUpsertMixedCaseDelete ==
    /\ call.outcome = "committed"
    /\ Len(call.batch) = 2
    /\ "action" \notin DOMAIN call.batch[1]
    /\ MetricKey(call.batch[1]) = <<1, 1>>
    /\ call.batch[2] = WithAction(MetricRow(1, 2, 10), << "D", "e", "l", "e", "t", "e" >>)
    /\ \E t \in FactsOf(call.before, <<1, 1>>) : t.cpu_usage_avg # call.batch[1].cpu_usage_avg
    /\ FactsOf(call.before, <<1, 2>>) # {}
    /\ FactsOf(metric_entry, <<1, 2>>) = {}
    /\ \E t \in FactsOf(metric_entry, <<1, 1>>) : SameMeasures(t, call.batch[1])

\* C9: _seed_calendar invoked on a date table that holds a row skips: it
\* ends without raising, and neither it nor anything after it in the call
\* changes the rows of the table.
C9_CalendarSkip ==
    /\ [][ (call.cal = "invoked" /\ call'.cal # call.cal
            /\ DimDateIds(dim_date) # {})
           => (call'.cal = "skipped" /\ dim_date' = dim_date) ]_vars
    /\ [][ call.cal = "skipped" => (call'.cal = "skipped" /\ dim_date' = dim_date) ]_vars

\* C9 witness: the step was invoked on a seeded table and skipped
C9_SkippedOnSeededTable ==
    /\ call.cal = "skipped"
    /\ Cardinality(DimDateIds(dim_date)) = 1461

-----------------------------------------------------------------------------
(* Properties of the search sync *)

PassesValidation(record) == DomainValidate("dim_asset", record).ok

DocsOf(docs, record) == { d \in docs : d.id = Str(record.id) }

\* C10: _sync_to_typesense never raises, whatever rows fail validation.
\* When it has returned, a row that fails validation has left the
\* collection as it was for its id, and, the search engine having been
\* reachable throughout, every row that passes has its document in the
\* collection, wherever the failing rows stood in the batch.
C10_InvalidRowSkipped ==
    /\ sync.state # "raised" /\ call.outcome # "raised"
    /\ call.outcome = "returned" =>
         LET docs == collections["AssetDomain"].docs
         IN  \A i \in DOMAIN call.batch :
               LET record == call.batch[i]
               IN  IF PassesValidation(record)
                   THEN env.search = "up" =>
                          /\ collections["AssetDomain"].exists
                          /\ DocsOf(docs, record) =
                               { FormatDoc(DomainValidate("dim_asset", record).obj,
                                           env.utc_offset) }
                   ELSE DocsOf(docs, record) = DocsOf(call.before, record)

\* C10 witness: a batch of three returned with the search engine up; its
\* second row fails validation and has no document, the rows before and
\* after it are in the collection.
C10_SkippedBetweenIndexed ==
    /\ call.outcome = "returned" /\ env.search = "up"
    /\ Len(call.batch) = 3
    /\ PassesValidation(call.batch[1])
    /\ ~ PassesValidation(call.batch[2])
    /\ PassesValidation(call.batch[3])
    /\ DocsOf(collections["AssetDomain"].docs, call.batch[1]) # {}
    /\ DocsOf(collections["AssetDomain"].docs, call.batch[2]) = {}
    /\ DocsOf(collections["AssetDomain"].docs, call.batch[3]) # {}

-----------------------------------------------------------------------------
(* Properties of the pipeline orchestrator *)

\* What a run that meets no exception logs.  RESET is _cleanup_database and
\* _cleanup_typesense, PREPARE _prepare_database_environment, BRONZE_INGEST
\* _ingest_all_to_bronze, CALENDAR_SEED _seed_calendar, DIMENSION_SYNC
\* _process_dimensions (for each dimension in turn its upsert, then its
\* sync), FACT_CDC _process_metrics, VIEW_REFRESH _refresh_gold_views.
ExpectedDimensionLog ==
    [ k \in 1..40 |->
        LET i == ((k - 1) \div 4) + 1
        IN  << Started("_upsert_polars_to_silver", i), Returned("_upsert_polars_to_silver", i),
               Started("_sync_to_typesense", i), Returned("_sync_to_typesense", i) >>[((k - 1) % 4) + 1] ]

ExpectedLog ==
    << Started("_cleanup_database", 0), Returned("_cleanup_database", 0),
       Started("_cleanup_typesense", 0), Returned("_cleanup_typesense", 0),
       Started("_prepare_database_environment", 0), Returned("_prepare_database_environment", 0),
       Started("_ingest_all_to_bronze", 0), Returned("_ingest_all_to_bronze", 0),
       Started("_seed_calendar", 0), Returned("_seed_calendar", 0),
       Started("_process_dimensions", 0) >>
    \o ExpectedDimensionLog
    \o << Returned("_process_dimensions", 0),
          Started("_process_metrics", 0), Returned("_process_metrics", 0),
          Started("_refresh_gold_views", 0), Returned("_refresh_gold_views", 0) >>

\* The log is a beginning of ExpectedLog, followed by nothing but the
\* exception that left the methods entered
LogInOrder ==
    \E n \in 0..Len(log) :
        /\ n <= Len(ExpectedLog)
        /\ SubSeq(log, 1, n) = SubSeq(ExpectedLog, 1, n)
        /\ \A j \in (n + 1)..Len(log) : log[j].event = "raise"

\* The ten dimension upserts have returned and their rows are in the tables
AllDimensionsCommitted ==
    \A i \in 1..10 :
        /\ Returned("_upsert_polars_to_silver", i) \in Range(log)
        /\ silver[DimTables[i]] # {}

\* C1: the steps of a run start in the order RESET, PREPARE, BRONZE_INGEST,
\* CALENDAR_SEED, DIMENSION_SYNC (ten dimensions, one after the other),
\* FACT_CDC, VIEW_REFRESH, each after the one before it has returned; the
\* fact transaction opens, and the fact table is written, only when the
\* ten dimension upserts have committed.
C1_StepsInOrder ==
    /\ []LogInOrder
    /\ []((tx.state = "open" /\ tx.kind = "fact") => AllDimensionsCommitted)
    /\ [][ (metric_entry' # metric_entry /\ metric_entry' # {})
             => AllDimensionsCommitted ]_vars

\* C1 witness: a run went through every step and wrote facts
C1_CompleteRun ==
    /\ result = "success"
    /\ log = ExpectedLog
    /\ metric_entry # {}

TopLevelMethods ==
    { "_cleanup_database", "_cleanup_typesense", "_prepare_database_environment",
      "_ingest_all_to_bronze", "_seed_calendar", "_process_dimensions",
      "_process_metrics", "_refresh_gold_views" }

RaisedIn(l) == { j \in DOMAIN l : l[j].event = "raise" }

\* C2: run_seed_process ends by returning a status, never by raising.  Once
\* a step has raised nothing more is started, the status is "error" and the
\* stores stay as the failing step left them; the status is "success" only
\* when every step, the view refresh included, has returned.
C2_ErrorEndsRun ==
    /\ [](result \in { "none", "success", "error" })
    /\ []((pc.step = "done") <=> (result # "none"))
    /\ [](\A j \in RaisedIn(log) :
             /\ result = "error"
             /\ \A k \in j..Len(log) : log[k].event = "raise")
    /\ [](result = "error" => RaisedIn(log) # {})
    /\ [](result = "success" =>
             /\ RaisedIn(log) = {}
             /\ \A m \in TopLevelMethods : Returned(m, 0) \in Range(log))
    /\ [][ result # "none" =>
             UNCHANGED <<result, bronze, silver, dim_date, metric_entry, collections>> ]_vars

\* C2 witness: the upsert of the last dimension raised after nine
\* dimensions were loaded; the run returned "error" and no fact was touched.
C2_ErrorAfterNineDimensions ==
    /\ result = "error"
    /\ log[Len(log)] = Raised("_process_dimensions", 0)
    /\ Returned("_sync_to_typesense", 9) \in Range(log)
    /\ Raised("_upsert_polars_to_silver", 10) \in Range(log)
    /\ Started("_process_metrics", 0) \notin Range(log)
    /\ silver["dim_team"] # {} /\ silver["dim_asset"] = {}
    /\ metric_entry = {}


-----------------------------------------------------------------------------
(* Properties of the dimension loop: upsert, then sync *)

\* The documents a step adds to, or replaces in, collection c
NewDocs(c) == collections'[c].docs \ collections[c].docs

\* C11: the sync of a dimension starts only when the upsert of that
\* dimension has committed and returned, and on the rows of the silver table
\* as they are then; a dimension whose upsert raised is never synced; every
\* document the sync writes carries the id of a row of the silver table,
\* an id the table's sequence assigned.
C11_SyncAfterCommit ==
    /\ [][ (sync.state # "running" /\ sync'.state = "running") =>
             /\ call.outcome = "committed" /\ tx.state = "closed"
             /\ sync'.model = DimTables[pc.dim]
             /\ Range(sync'.todo) = silver[sync'.model] ]_vars
    /\ [](sync.state = "running" =>
             /\ Returned("_upsert_polars_to_silver", pc.dim) \in Range(log)
             /\ Range(sync.todo) \subseteq silver[sync.model])
    /\ [](\A i \in DOMAIN DimTables :
             Raised("_upsert_polars_to_silver", i) \in Range(log)
                => Started("_sync_to_typesense", i) \notin Range(log))
    /\ [][ \A c \in CollectionNames : \A doc \in NewDocs(c) :
             /\ sync.state = "running" /\ c = CollectionName(sync.model)
             /\ \E row \in silver[sync.model] :
                  /\ doc.id = Str(row.id)
                  /\ row.id \in 1..seq[sync.model] ]_vars

\* C11 witness: the assets are synced; the staging batch held two rows
\* without id, the silver table holds them with ids, and the collection
\* holds the document of the one that passes validation, under its id
C11_AssetsSyncedFromSilver ==
    /\ pc.step = "dimensions" /\ pc.dim = 10 /\ sync.state = "returned"
    /\ Len(bronze["assets"].rows) = 2
    /\ \A i \in 1..2 : "id" \notin DOMAIN bronze["assets"].rows[i]
    /\ Cardinality(silver["dim_asset"]) = 2
    /\ \E row \in silver["dim_asset"] :
         collections["AssetDomain"].docs =
            { FormatDoc(AssetDomain(row).obj, env.utc_offset) }


-----------------------------------------------------------------------------
(* Properties of the document format *)

\* The calendar date (days since 1970-01-01) a reader gets from epoch
\* seconds taken as UTC
DecodeDateUtc(seconds) == seconds \div SecondsPerDay

\* C12: the created_at of the document of a stored asset is the epoch
\* seconds of midnight UTC of the row's date, and read as UTC it gives that
\* date back, whatever the UTC offset of the host.
C12_DateRoundTrip ==
    \A row \in silver["dim_asset"] :
        \A doc \in DocsOf(collections["AssetDomain"].docs, row) :
            /\ doc.created_at = row.created_at * SecondsPerDay
            /\ DecodeDateUtc(doc.created_at) = row.created_at


-----------------------------------------------------------------------------
(* Properties of the global search *)

\* The route has answered a global search with a list of hits
Answered == api.op = "global_search" /\ api.status = 200

\* The documents of collection c that the query matches in a field that
\* global_search searches for c
Matching(c) == DocsMatching(collections[c].docs, api.q, Range(FIELD_MAPPING(c)))

\* The hits tagged c, without their tag
HitsTagged(body, c) ==
    { [ f \in DOMAIN body[i] \ { "domain_entity" } |-> body[i][f] ] :
        i \in { k \in DOMAIN body : body[k].domain_entity = c } }

Tags(body) == { body[i].domain_entity : i \in DOMAIN body }

\* C13: every hit of the answer is a document of the collection its tag
\* names; when each entity type that holds a matching document holds one,
\* the answer has one hit per such type and its tags are those types.
C13_TaggedByPosition ==
    Answered =>
        LET matched == { c \in CollectionNames : Matching(c) # {} }
        IN  /\ \A c \in Tags(api.body) : HitsTagged(api.body, c) \subseteq collections[c].docs
            /\ (\A c \in matched : Cardinality(Matching(c)) = 1) =>
                  /\ Len(api.body) = Cardinality(matched)
                  /\ Tags(api.body) = matched

\* The engine rejects the search of collection c: c does not exist, or the
\* search names a field that c's schema does not hold as a string
SubQueryFails(c) ==
    \/ ~ collections[c].exists
    \/ \E f \in Range(FIELD_MAPPING(c)) :
          f \notin DOMAIN get_schema(c) \/ get_schema(c)[f] # "string"

\* C14: whenever the engine answers the request, global_search returns a
\* list, whatever searches the engine rejected; a rejected search adds no
\* hit, and every other collection adds exactly its matching documents.
C14_FailedSubQueryIsEmpty ==
    ( /\ api.op = "global_search" /\ api.status # 0
      /\ authenticate(api.credentials) /\ env.search # "down" ) =>
        /\ api.status = 200
        /\ \A c \in CollectionNames :
             HitsTagged(api.body, c) = IF SubQueryFails(c) THEN {} ELSE Matching(c)

\* C14 witness: the query "o" answered with the asset "Db One" while the
\* search of the teams, which hold "Ops", was rejected and the collection
\* of the environments does not exist
C14_HitsBesideFailures ==
    /\ Answered /\ api.q = << "o" >>
    /\ ~ collections["EnvironmentDomain"].exists
    /\ collections["TeamDomain"].exists /\ SubQueryFails("TeamDomain")
    /\ Matching("TeamDomain") # {}
    /\ Len(api.body) = 1 /\ api.body[1].domain_entity = "AssetDomain"

-----------------------------------------------------------------------------
(* Properties of the search engine calls of a run *)

\* What a run decides and stores: its position, status and journal, and the
\* staging and warehouse tables
RunAndWarehouse ==
    << pc, result, log, storage, bronze, silver, dim_date, metric_entry, seq, tx, call >>

SearchMethods == { "_cleanup_typesense", "_sync_to_typesense" }

\* C15: search-engine failures never fail a pipeline run.  No method that
\* calls the engine ever raises, so a run that ends with status error was
\* ended by another method; _cleanup_typesense returns to the next step and
\* the loop of _sync_to_typesense advances record by record whether or not
\* the engine answers, neither touching a table; and the engine going down or
\* coming back changes nothing of the run or the warehouse.  The run and the
\* warehouse therefore move as in a run whose engine is always reachable.
C15_SearchFailuresNeverFatal ==
    /\ [](\A e \in Range(log) : e.event = "raise" => e.method \notin SearchMethods)
    /\ [](result = "error" => /\ log # << >>
                             /\ log[Len(log)].event = "raise"
                             /\ log[Len(log)].method \notin SearchMethods)
    /\ [][ (pc.step = "cleanup_typesense" /\ pc' # pc) =>
             /\ pc' = Goto("prepare") /\ result' = result
             /\ log' = log \o << Started("_cleanup_typesense", 0),
                                 Returned("_cleanup_typesense", 0) >>
             /\ UNCHANGED << storage, bronze, silver, dim_date, metric_entry, seq, tx, call >>
          ]_vars
    /\ [][ (sync.state = "running" /\ sync' # sync) =>
             /\ \/ sync.todo # << >> /\ sync' = [ sync EXCEPT !.todo = Tail(@) ]
                \/ sync.todo = << >> /\ sync' = [ sync EXCEPT !.state = "returned" ]
             /\ UNCHANGED RunAndWarehouse ]_vars
    /\ [][ (env' # env \/ collections' # collections) =>
             UNCHANGED << storage, bronze, silver, dim_date, metric_entry, seq, tx, call >>
          ]_vars

\* A run ends with status success although the engine never answered: the
\* assets are in the warehouse and none is in the index
C15_SuccessWithEngineDown ==
    /\ pc.step = "done" /\ result = "success"
    /\ env.search = "down"
    /\ silver["dim_asset"] # {}
    /\ \E row \in silver["dim_asset"] : DomainValidate("dim_asset", row).ok
    /\ collections["AssetDomain"].docs = {}

-----------------------------------------------------------------------------
(* Properties of the ingestion of the source files *)

\* The files of the bucket whose content cannot be parsed
Malformed ==
    { i \in DOMAIN storage :
        storage[i].extension \in { ".csv", ".json", ".pdf" } /\ ~ storage[i].parses }

\* The PDF files of the bucket whose text holds no header token, hence no row
PdfWithoutHeader ==
    { i \in DOMAIN storage :
        /\ storage[i].extension = ".pdf" /\ storage[i].parses
        /\ storage[i].rows = << >> }

IngestStarted == Started("_ingest_all_to_bronze", 0) \in Range(log)
IngestRaised == Raised("_ingest_all_to_bronze", 0) \in Range(log)

\* C16: a source file that cannot be parsed is skipped as an empty batch:
\* _ingest_all_to_bronze does not raise because of it, no staging table is
\* written for it, and the run is not ended with status error by the
\* ingestion.
C16_MalformedFileSkipped ==
    Malformed # {} =>
        /\ ~ IngestRaised
        /\ IngestStarted => \A i \in Malformed : ~ bronze[storage[i].name].exists

\* C17: a PDF whose text holds no header token yields an empty batch: no
\* staging table is written for it and _ingest_all_to_bronze goes on to the
\* next file and returns.
C17_PdfWithoutHeaderSkipped ==
    PdfWithoutHeader # {} =>
        /\ ~ IngestRaised
        /\ IngestStarted =>
              /\ Returned("_ingest_all_to_bronze", 0) \in Range(log)
              /\ \A i \in PdfWithoutHeader : ~ bronze[storage[i].name].exists

-----------------------------------------------------------------------------
(* Properties of updated_at *)

\* C18: no write to a dimension table lowers the updated_at of a row, a row
\* being known by its id, whether the writes come from one run or from two
\* runs that upsert the same business key at once.
C18_UpdatedAtMonotonic ==
    [][ \A m \in DOMAIN silver : \A old \in silver[m] : \A new \in silver'[m] :
          new.id = old.id => new.updated_at >= old.updated_at ]_vars

-----------------------------------------------------------------------------
(* Properties of the asset CRUD *)

-----------------------------------------------------------------------------
(* Properties of POST /v1/seed *)

\* C20: a POST /v1/seed request without valid Basic-Auth credentials is
\* answered 401 and starts no step of the pipeline: the answer leaves pc,
\* result, log and every table and collection as they were, and
\* run_seed_process only ever runs for a request whose credentials
\* authenticate.  A request with valid credentials is never answered
\* anything but 200, and it is answered 200 once run_seed_process has
\* returned, with "success" and with "error" alike.
C20_SeedNeedsCredentials ==
    /\ [](api.op = "seed" /\ ~authenticate(api.credentials) =>
             api.status = 401 /\ pc = Idle /\ result = "none" /\ log = << >>)
    /\ [](pc # Idle =>
             api.op = "seed" /\ authenticate(api.credentials) /\ api.status \in { 0, 200 })
    /\ [](api.op = "seed" /\ authenticate(api.credentials) =>
             /\ api.status \in { 0, 200 }
             /\ api.status = 200 => pc.step = "done" /\ result \in { "success", "error" })
    /\ [][ api'.op = "seed" /\ api'.status = 401 =>
              UNCHANGED <<pc, result, log, storage, bronze, silver, dim_date, metric_entry,
                          seq, collections, tx, sync, call>> ]_vars

\* Witness of C20: a request with a wrong password was answered 401 with
\* nothing run.
C20_Refused ==
    /\ api.op = "seed" /\ api.status = 401
    /\ api.credentials.given /\ api.credentials.username = "admin"
    /\ api.credentials.password # "password123"
    /\ pc = Idle /\ log = << >>

\* A request with the admin's credentials was answered 200 although
\* run_seed_process returned {"status": "error"}
C20_AnsweredAfterError ==
    /\ api.op = "seed" /\ api.status = 200
    /\ authenticate(api.credentials)
    /\ result = "error" /\ log # << >>

-----------------------------------------------------------------------------
(* Properties of the index after the sync of a dimension *)

\* The sync of dimension i has returned
Synced(i) == Returned("_sync_to_typesense", i) \in Range(log)

\* The documents of row in the collection of model
IndexedAs(model, row) ==
    { doc \in collections[CollectionName(model)].docs : doc.id = Str(row.id) }

\* C21: once the sync of a dimension has returned in a run during which
\* the search engine has answered every call, every row of that
\* dimension's silver table that passes the validation of its domain model
\* has a document in the dimension's collection whose id is the row's id as
\* a string, and that document is the formatted dump of the row.
C21_SyncedRowsIndexed ==
    [](\A i \in DOMAIN DimTables :
          Synced(i) /\ env.search = "up" =>
             \A row \in silver[DimTables[i]] :
                DomainValidate(DimTables[i], row).ok =>
                   /\ collections[CollectionName(DimTables[i])].exists
                   /\ IndexedAs(DimTables[i], row) =
                        { FormatDoc(DomainValidate(DimTables[i], row).obj, env.utc_offset) })

\* Witness of C21: the run has ended with the engine reachable throughout;
\* silver.dim_asset holds a row that passes validation, indexed under its
\* id, and one that does not, without document
C21_AssetsIndexed ==
    /\ pc.step = "done" /\ result = "success" /\ env.search = "up"
    /\ Synced(10)
    /\ \E row \in silver["dim_asset"] :
         AssetDomain(row).ok /\ IndexedAs("dim_asset", row) # {}
    /\ \E row \in silver["dim_asset"] :
         ~ AssetDomain(row).ok /\ IndexedAs("dim_asset", row) = {}

-----------------------------------------------------------------------------
(* Properties of a run repeated over the same source files *)

\* The columns the pipeline stamps
Timestamps == { "source_timestamp", "updated_at" }

WithoutTimestamps(row) == [ c \in DOMAIN row \ Timestamps |-> row[c] ]

\* The tables a run lands when every download succeeds
FreshBronze == IngestFiles(storage, 0, 1, NoBronze).bronze

\* The statements of _upsert_polars_to_silver for a batch, on a table that
\* was just created
RECURSIVE FreshDimension(_, _, _, _)
FreshDimension(model, batch, table, sq) ==
    IF batch = << >> THEN table
    ELSE LET r == UpsertStatement(table, sq, ValidData(Head(batch), model, 1), model)
         IN  FreshDimension(model, Tail(batch), r.table, r.seq)

FreshSilver ==
    [ m \in Range(DimTables) |-> FreshDimension(m, FreshBronze[BronzeTable(m)].rows, {}, 0) ]

FreshDates == { Calendar(1, CalendarStartYear, CalendarEndYear) }

\* The statements of _process_metrics for a batch, on a table that was
\* just created
RECURSIVE FreshFacts(_, _, _)
FreshFacts(batch, table, sq) ==
    IF batch = << >> THEN table
    ELSE LET r == CdcStatement(table, sq, Head(batch), FreshSilver, FreshDates, 1)
         IN  FreshFacts(Tail(batch), r.table, r.seq)

\* The documents of the rows of a freshly loaded dimension
FreshDocs(m) ==
    { WithoutTimestamps(FormatDoc(DomainValidate(m, row).obj, env.utc_offset)) :
        row \in { t \in FreshSilver[m] : DomainValidate(m, t).ok } }

\* The run has returned {"status": "success"}
Succeeded == pc.step = "done" /\ result = "success"

\* The warehouse is, timestamps apart, what the source files give when they
\* are loaded into an empty warehouse
WarehouseAsFresh ==
    /\ \A m \in Range(DimTables) :
         { WithoutTimestamps(t) : t \in silver[m] }
            = { WithoutTimestamps(t) : t \in FreshSilver[m] }
    /\ { WithoutTimestamps(t) : t \in metric_entry }
         = { WithoutTimestamps(t) : t \in FreshFacts(FreshBronze["metric_entries"].rows, {}, 0) }
    /\ dim_date = FreshDates

\* The collections hold, timestamps apart, the documents of the rows of
\* such a warehouse
IndexAsFresh ==
    \A m \in Range(DimTables) :
       { WithoutTimestamps(d) : d \in collections[CollectionName(m)].docs } = FreshDocs(m)

\* C22 as stated: every successful run ends, timestamps apart, with the
\* warehouse and the search documents that the source files alone
\* determine, whatever an earlier run left behind; two successful runs
\* over the same files therefore end alike.
C22_RerunEndsAlike ==
    [](Succeeded => WarehouseAsFresh /\ IndexAsFresh)

\* What holds of a repeated run: every successful run ends with the
\* warehouse the source files alone determine (dimension rows with their
\* ids, fact rows, date rows), timestamps apart; it ends with the search
\* documents they determine when the search engine has answered every call
\* of the run.
C22_RerunEndsAlikeWhenReachable ==
    [](Succeeded => /\ WarehouseAsFresh
                    /\ env.search = "up" => IndexAsFresh)

\* A successful run with the engine reachable has ended with two assets,
\* one of them indexed, and their facts
C22_RebuiltAndIndexed ==
    /\ Succeeded /\ env.search = "up"
    /\ Cardinality(silver["dim_asset"]) = 2
    /\ Cardinality(collections["AssetDomain"].docs) = 1
    /\ metric_entry # {}
    /\ WarehouseAsFresh /\ IndexAsFresh

-----------------------------------------------------------------------------
(* Properties of the fields of a global search result *)

\* C23: every result in the list GET /v1/search/global answers with has a
\* field 'entity_type', and its value is the name of one of the ten
\* collections searched.
C23_EntityTypeField ==
    [](Answered =>
         \A k \in DOMAIN api.body :
            /\ "entity_type" \in DOMAIN api.body[k]
            /\ api.body[k]["entity_type"] \in Range(collections_to_search))

-----------------------------------------------------------------------------
(* Properties of the measures of the fact table *)

\* C24: every row of silver.metric_entry has, whatever batches
\* _process_metrics was given, a CPU usage within [0, 100] and a memory
\* usage, an hourly cost and an uptime that are not negative; a batch row
\* outside these bounds is not stored.
C24_MeasuresWithinBounds ==
    [](\A t \in metric_entry :
          /\ t.cpu_usage_avg >= 0 /\ t.cpu_usage_avg <= 100
          /\ t.memory_usage_avg >= 0
          /\ t.hourly_cost >= 0
          /\ t.uptime_seconds >= 0)

-----------------------------------------------------------------------------
(* Properties of the lists of collections *)

\* get_schema declares fields for collection c
HasDeclaredSchema(c) == ".*" \notin DOMAIN get_schema(c)

\* C25: global_search queries ten collections; they are the collections
\* the dimensions are synced into, each has a declared schema, and they are
\* the collections RESET deletes: a _cleanup_typesense the engine answers
\* leaves none of them, and no other; every document a run writes goes to
\* one of them.
C25_SameTenCollections ==
    /\ [](/\ Cardinality(Range(collections_to_search)) = 10
          /\ Range(collections_to_search) = { CollectionName(m) : m \in Range(DimTables) }
          /\ \A c \in Range(collections_to_search) : HasDeclaredSchema(c)
          /\ DOMAIN collections = Range(collections_to_search))
    /\ [][ pc.step = "cleanup_typesense" /\ pc'.step # "cleanup_typesense"
           /\ env.search # "down" =>
              \A c \in Range(collections_to_search) :
                 ~ collections'[c].exists /\ collections'[c].docs = {} ]_vars
    /\ [][ \A c \in DOMAIN collections :
              collections'[c] # collections[c] =>
                 /\ c \in Range(collections_to_search)
                 /\ \/ pc.step = "cleanup_typesense"
                    \/ sync.state = "running" /\ c = CollectionName(sync.model) ]_vars

\* Witness of C25: a run that found documents of an earlier run in
\* AssetDomain has deleted them at RESET and has ended with each of the
\* ten collections of global_search existing and filled by its sync
C25_TenCollectionsRebuilt ==
    /\ Succeeded /\ env.search = "up"
    /\ \A c \in Range(collections_to_search) :
          collections[c].exists /\ collections[c].docs # {}
    /\ collections["AssetDomain"].docs \cap StaleDocs = {}

-----------------------------------------------------------------------------
(* Properties of the search fields *)

\* C26: every field FIELD_MAPPING names for a collection is declared by the
\* schema of that collection with type string, and no search of a global
\* search on existing collections is answered with an error.
C26_SearchFieldsDeclared ==
    /\ [](\A c \in Range(collections_to_search) :
             \A f \in Range(FIELD_MAPPING(c)) :
                f \in DOMAIN get_schema(c) /\ get_schema(c)[f] = "string")
    /\ [][ \A i \in DOMAIN collections_to_search :
              ( /\ api.op = "global_search" /\ api'.op = "global_search"
                /\ api.status = 0 /\ api'.status = 200
                /\ collections[collections_to_search[i]].exists ) =>
                 ~ SubQueryFails(collections_to_search[i]) ]_vars

-----------------------------------------------------------------------------
(* Properties of the index after RESET *)

\* C27: after a successful run every document of each of the ten
\* collections is the document of a row the silver table of its dimension
\* holds, and no document that was in a collection before the run is left.
C27_NoStaleDocuments ==
    [](Succeeded =>
         \A m \in Range(DimTables) :
            \A doc \in collections[CollectionName(m)].docs :
               /\ \E row \in silver[m] :
                     /\ DomainValidate(m, row).ok
                     /\ doc = FormatDoc(DomainValidate(m, row).obj, env.utc_offset)
               /\ doc \notin StaleDocs)

-----------------------------------------------------------------------------
(* Properties of the upsert of a retired key *)

\* The rows of table that are soft-deleted and whose business key is in batch
Retired(table, batch) ==
    { t \in table : ~ t.is_active /\ t.serial_number \in AssetKeys(batch) }

\* C28: when _upsert_polars_to_silver commits a batch, every row that was
\* soft-deleted and whose serial_number is in the batch is active again,
\* under its id, and the default read of that id finds it.
C28_UpsertReactivates ==
    [][ tx.state = "open" /\ tx'.state = "committed" =>
          \A old \in Retired(silver["dim_asset"], call.batch) :
             /\ \E t \in silver'["dim_asset"] :
                   t.id = old.id /\ t.serial_number = old.serial_number /\ t.is_active
             /\ get_dim_asset_or_404(silver'["dim_asset"], old.id) # {} ]_vars

\* Witness of C28: the assets 1 and 3 were retired, a batch with the serial
\* of asset 1 was upserted, and the default read of id 1 finds the asset
\* again, while asset 3 stays retired
C28_RetiredAssetFoundAgain ==
    /\ call.phase = "second" /\ call.outcome = "committed"
    /\ { old.id : old \in Retired(call.before, call.batch) } = { 1 }
    /\ \E old \in call.before : old.id = 3 /\ ~ old.is_active
    /\ get_dim_asset_or_404(silver["dim_asset"], 1) # {}
    /\ get_dim_asset_or_404(silver["dim_asset"], 3) = {}

-----------------------------------------------------------------------------
(* Properties of a run whose staging area is incomplete *)

\* The staging tables the run reads: one for each dimension and the metrics
StagingTables == { BronzeTable(m) : m \in Range(DimTables) } \cup { "metric_entries" }

\* The dimension's rows are, timestamps apart, the ones its file gives
CommittedAsLanded(m) ==
    { WithoutTimestamps(t) : t \in silver[m] } = { WithoutTimestamps(t) : t \in FreshSilver[m] }

\* C29: a run returns status success only if every one of the eleven
\* staging tables exists after BRONZE_INGEST, landed by this run from its
\* file; a run that has ended with one of them missing has ended with
\* status error, and every dimension whose upsert had returned by then
\* keeps the rows that upsert committed.
C29_SuccessNeedsStaging ==
    /\ [](Succeeded =>
            \A t \in StagingTables :
               bronze[t].exists /\ bronze[t].rows = FreshBronze[t].rows)
    /\ [](pc.step = "done" /\ (\E t \in StagingTables : ~ bronze[t].exists) =>
            /\ result = "error"
            /\ \A j \in DOMAIN DimTables :
                  (\E i \in DOMAIN log : log[i] = Returned("_upsert_polars_to_silver", j))
                     => CommittedAsLanded(DimTables[j]))

\* Witness of C29: the file of the teams was empty, so after a RESET that
\* dropped the staging table of an earlier run no bronze.teams exists; the
\* run has ended with status error at the ninth dimension, the eight
\* dimensions before it committed and the assets not loaded
C29_StoppedAtMissingTeams ==
    /\ pc.step = "done" /\ result = "error"
    /\ log[Len(log)] = Raised("_process_dimensions", 0)
    /\ \E i \in DOMAIN log : log[i] = Returned("_sync_to_typesense", 8)
    /\ { t \in StagingTables : ~ bronze[t].exists } = { "teams" }
    /\ \A j \in 1..8 : silver[DimTables[j]] # {} /\ CommittedAsLanded(DimTables[j])
    /\ silver["dim_team"] = {} /\ silver["dim_asset"] = {}

-----------------------------------------------------------------------------
(* Properties of the warehouse after RESET *)

\* _cleanup_database has committed in this run
ResetCommitted == \E i \in DOMAIN log : log[i] = Returned("_cleanup_database", 0)

\* No row an earlier run left is in the staging area or in the warehouse
\* (the rows of this run differ from them: in their columns in the staging
\* area, in their timestamps or ids in the warehouse)
NoLeftoverRow ==
    /\ \A t \in DOMAIN bronze :
          Range(bronze[t].rows) \cap Range(Leftover.bronze[t].rows) = {}
    /\ \A m \in Range(DimTables) : silver[m] \cap Leftover.silver[m] = {}
    /\ metric_entry \cap Leftover.metric_entry = {}

\* C30: RESET is never undone: the step of _cleanup_database that commits
\* leaves no staging table and no dimension, date or fact row, and from
\* then on no row that existed before the run is in the staging area, in a
\* dimension or in the fact table, up to and including the state in which
\* the run has ended, with status success or error.
C30_ResetNeverUndone ==
    /\ [][ pc.step = "cleanup_database" /\ pc'.step = "cleanup_typesense" =>
             /\ \A t \in DOMAIN bronze' : ~ bronze'[t].exists /\ bronze'[t].rows = << >>
             /\ \A m \in Range(DimTables) : silver'[m] = {}
             /\ dim_date' = {} /\ metric_entry' = {} ]_vars
    /\ [](ResetCommitted => NoLeftoverRow)

\* Witness of C30: a run over a warehouse and a staging area that an
\* earlier run had filled has ended with status success, with the rows of
\* its own files only
C30_RebuiltWithoutLeftovers ==
    /\ Succeeded /\ ResetCommitted
    /\ log[1] = Started("_cleanup_database", 0)
    /\ \A m \in Range(DimTables) : silver[m] # {}
    /\ metric_entry # {} /\ bronze["assets"].rows = SourceAssets
    /\ \E t \in silver["dim_asset"] : \E old \in Leftover.silver["dim_asset"] :
          t.id = old.id /\ t.serial_number = old.serial_number /\ t.updated_at > old.updated_at
    /\ NoLeftoverRow

\* A run over the same warehouse has ended with status error, after RESET
C30_FailedWithoutLeftovers ==
    /\ pc.step = "done" /\ result = "error" /\ ResetCommitted
    /\ \E m \in Range(DimTables) : silver[m] # {}
    /\ NoLeftoverRow

=============================================================================
